---- MODULE Spec2Model ----
(***************************************************************************)
(* Process supervision of the dPolaris backend: ops.main (up / down /      *)
(* demo), with the start handlers of opsctl and ops_cli.  One CLI          *)
(* invocation runs at a time; the operating system (processes exiting,    *)
(* the spawned backend binding its port) moves between its steps.          *)
(***************************************************************************)
EXTENDS Integers, Sequences, FiniteSets, TLC

\* ------------------------------------------------------------------ bounds
MaxPid == 2
MaxPolls == 1
\* Longest --timeout given to wait_healthy, in seconds, and the longest time one
\* health probe takes, in clock ticks of 0.2 s.
MaxTimeout == 2
MaxProbeTicks == 3
\* Longest job timeout given to a doctor or smoke-dl run and the longest time
\* one job poll takes, in seconds.
MaxJobTimeout == 6
MaxPollSeconds == 1

PIDS == 1..MaxPid

\* ------------------------------------------------------------ program text
EXIT_OK == 0
EXIT_FAIL == 2

SAFE_SERVER_FRAGMENT == "-m cli.main server"
SAFE_AI_REPO_FRAGMENT == "dpolaris_ai"
OPS_MAIN_FRAGMENT == "-m ops.main"
OPS_REPO_FRAGMENT == "dpolaris_ops"

\* opsctl: the parts of the expected backend command line.
CLI_MAIN_FRAGMENT == "cli.main"
SERVER_FRAGMENT == "server"
AI_ROOT == "C:\\my-git\\dpolaris_ai"

\* The three script generations; a machine runs one of them.
Tools == {"ops.main", "opsctl", "ops_cli"}

\* Command lines as the process inspection prints them.
CmdBackend == "/Users/dev/my-git/dPolaris_ai/.venv/bin/python -m cli.main server --host 127.0.0.1 --port 8420"
CmdBackendWin == "C:/my-git/dpolaris_ai/.venv/Scripts/python.exe -m cli.main server --host 127.0.0.1 --port 8420"
CmdForeign == "nginx: master process"
CmdOrch == "/usr/bin/python3 -m ops.main run --repo /Users/dev/my-git/dPolaris_ops"
\* A process that is no orchestrator and has the repository in its command line.
CmdEditor == "vim /Users/dev/my-git/dPolaris_ops/ops/main.py"
NoCommand == ""

\* The command line of a backend started by the tool.
BackendCommand(t) == IF t = "ops.main" THEN CmdBackend ELSE CmdBackendWin

CommandsOf(t) == {BackendCommand(t), CmdForeign, CmdOrch, CmdEditor}

\* str.lower()
Lower(s) ==
  CASE s = CmdBackend -> "/users/dev/my-git/dpolaris_ai/.venv/bin/python -m cli.main server --host 127.0.0.1 --port 8420"
    [] s = CmdBackendWin -> "c:/my-git/dpolaris_ai/.venv/scripts/python.exe -m cli.main server --host 127.0.0.1 --port 8420"
    [] s = CmdOrch -> "/usr/bin/python3 -m ops.main run --repo /users/dev/my-git/dpolaris_ops"
    [] s = CmdEditor -> "vim /users/dev/my-git/dpolaris_ops/ops/main.py"
    [] s = AI_ROOT -> "c:\\my-git\\dpolaris_ai"
    [] s = "OK" -> "ok"
    [] s = "Healthy" -> "healthy"
    [] s = "RUNNING" -> "running"
    [] s = "None" -> "none"
    [] s = "SUCCESS" -> "success"
    [] s = "Success" -> "success"
    [] s = "Completed" -> "completed"
    [] s = "FAILED" -> "failed"
    [] s = "No module named 'torch'" -> "no module named 'torch'"
    [] s = "NO MODULE NAMED TORCH" -> "no module named torch"
    [] OTHER -> s

\* str.replace("/", "\\")
Backslashes(s) ==
  CASE s = "c:/my-git/dpolaris_ai/.venv/scripts/python.exe -m cli.main server --host 127.0.0.1 --port 8420"
         -> "c:\\my-git\\dpolaris_ai\\.venv\\scripts\\python.exe -m cli.main server --host 127.0.0.1 --port 8420"
    [] s = "/users/dev/my-git/dpolaris_ai/.venv/bin/python -m cli.main server --host 127.0.0.1 --port 8420"
         -> "\\users\\dev\\my-git\\dpolaris_ai\\.venv\\bin\\python -m cli.main server --host 127.0.0.1 --port 8420"
    [] s = "/usr/bin/python3 -m ops.main run --repo /users/dev/my-git/dpolaris_ops"
         -> "\\usr\\bin\\python3 -m ops.main run --repo \\users\\dev\\my-git\\dpolaris_ops"
    [] s = "vim /users/dev/my-git/dpolaris_ops/ops/main.py"
         -> "vim \\users\\dev\\my-git\\dpolaris_ops\\ops\\main.py"
    [] OTHER -> s

\* `frag in text` for the texts above.
Contains(text, frag) ==
  \/ /\ text = "/users/dev/my-git/dpolaris_ai/.venv/bin/python -m cli.main server --host 127.0.0.1 --port 8420"
     /\ frag \in {SAFE_SERVER_FRAGMENT, SAFE_AI_REPO_FRAGMENT, CLI_MAIN_FRAGMENT, SERVER_FRAGMENT}
  \/ /\ text = CmdBackend
     /\ frag \in {SAFE_SERVER_FRAGMENT, CLI_MAIN_FRAGMENT, SERVER_FRAGMENT}
  \/ /\ text \in {CmdBackendWin,
                  "c:/my-git/dpolaris_ai/.venv/scripts/python.exe -m cli.main server --host 127.0.0.1 --port 8420"}
     /\ frag \in {SAFE_SERVER_FRAGMENT, SAFE_AI_REPO_FRAGMENT, CLI_MAIN_FRAGMENT, SERVER_FRAGMENT}
  \/ /\ text = "c:\\my-git\\dpolaris_ai\\.venv\\scripts\\python.exe -m cli.main server --host 127.0.0.1 --port 8420"
     /\ frag \in {SAFE_SERVER_FRAGMENT, SAFE_AI_REPO_FRAGMENT, CLI_MAIN_FRAGMENT, SERVER_FRAGMENT,
                  "c:\\my-git\\dpolaris_ai"}
  \/ /\ text = "\\users\\dev\\my-git\\dpolaris_ai\\.venv\\bin\\python -m cli.main server --host 127.0.0.1 --port 8420"
     /\ frag \in {SAFE_SERVER_FRAGMENT, SAFE_AI_REPO_FRAGMENT, CLI_MAIN_FRAGMENT, SERVER_FRAGMENT}
  \/ /\ text \in {"/usr/bin/python3 -m ops.main run --repo /users/dev/my-git/dpolaris_ops",
                  "\\usr\\bin\\python3 -m ops.main run --repo \\users\\dev\\my-git\\dpolaris_ops"}
     /\ frag \in {OPS_MAIN_FRAGMENT, OPS_REPO_FRAGMENT}
  \/ /\ text = CmdOrch
     /\ frag \in {OPS_MAIN_FRAGMENT}
  \/ /\ text \in {"vim /users/dev/my-git/dpolaris_ops/ops/main.py",
                  "vim \\users\\dev\\my-git\\dpolaris_ops\\ops\\main.py"}
     /\ frag \in {OPS_REPO_FRAGMENT}

\* opsctl
is_expected_backend_cmdline(cmdline) ==
  IF cmdline = NoCommand THEN FALSE
  ELSE LET norm == Backslashes(Lower(cmdline))
       IN  /\ Contains(norm, CLI_MAIN_FRAGMENT)
           /\ Contains(norm, SERVER_FRAGMENT)
           /\ Contains(norm, Backslashes(Lower(AI_ROOT)))

_is_safe_backend_command(command) ==
  LET lowered == Lower(command)
  IN  Contains(lowered, SAFE_SERVER_FRAGMENT) /\ Contains(lowered, SAFE_AI_REPO_FRAGMENT)

\* -------------------------------------------------------- pid-file content
\* A file is a sequence of characters: the digits 0..9, NL for "\n"; a
\* missing file is NoFile.
NL == 10
NoFile == <<-1>>
None == -1

RECURSIVE Digits(_)
Digits(n) == IF n < 10 THEN <<n>> ELSE Digits(n \div 10) \o <<n % 10>>

RECURSIVE ToInt(_)
ToInt(t) == IF Len(t) = 0 THEN 0 ELSE 10 * ToInt(SubSeq(t, 1, Len(t) - 1)) + t[Len(t)]

RECURSIVE Strip(_)
Strip(t) ==
  IF Len(t) = 0 THEN t
  ELSE IF t[1] = NL THEN Strip(Tail(t))
  ELSE IF t[Len(t)] = NL THEN Strip(SubSeq(t, 1, Len(t) - 1))
  ELSE t

IsDigit(t) == Len(t) > 0 /\ \A i \in 1..Len(t) : t[i] \in 0..9

\* f"{proc.pid}\n"
PidLine(pid) == Digits(pid) \o <<NL>>

\* str(proc.pid)
PidText(pid) == Digits(pid)

_read_pid_file(file) ==
  IF file = NoFile THEN None
  ELSE LET text == Strip(file)
       IN  IF ~IsDigit(text) THEN None ELSE ToInt(text)

\* Path.write_text: the open fails and leaves the file as it was, or the
\* write fails after the truncation, or the text is written.  The run
\* directory is the invoking user's own (the tools create it before they
\* write), so a removal from it succeeds and _unlink_if_exists is the
\* assignment of NoFile; a record in it may still be unwritable (left
\* read-only by another run, or no space left on the device).
WriteOutcomes == {"written", "open-failed", "write-failed"}

WriteText(file, text, outcome) ==
  CASE outcome = "written" -> text
    [] outcome = "open-failed" -> file
    [] OTHER -> <<>>

RECURSIVE SortedSeq(_)
SortedSeq(S) ==
  IF S = {} THEN <<>>
  ELSE LET m == CHOOSE x \in S : \A y \in S : x <= y
       IN  <<m>> \o SortedSeq(S \ {m})

Range(s) == {s[i] : i \in 1..Len(s)}

\* ------------------------------------------------------------------- state
VARIABLES
  tool,             \* the script generation this machine runs
  alive,            \* pids of the processes that exist
  listening,        \* pids listening on the backend port
  command,          \* pid -> command line ("" for no process)
  denied,           \* pids os.kill refuses with PermissionError
  lsof_ok,          \* the port inspection tool works
  BACKEND_PID_FILE,
  ORCHESTRATOR_PID_FILE,
  ORCHESTRATOR_HEARTBEAT_FILE,
  OPSCTL_PID_FILE,  \* opsctl: PID_FILE
  CLI_PID_FILE,     \* ops_cli: PID_FILE
  pc,               \* position of the running invocation
  args,             \* its parsed command line
  loc,              \* its local variables
  term,             \* the _terminate_pid call in progress
  sent,             \* signals delivered by this invocation
  logged,           \* FORCE-KILL entries this invocation appended to the ops log
  spawned,          \* pids spawned by this invocation
  rc,               \* its exit code
  quiet,            \* the previous invocation was a `down` that exited 0 and nothing started since
  probe,            \* one HTTP exchange: the response, what a client makes of it
  wait,             \* a wait_healthy call against the clock
  run,              \* a job run (doctor, smoke): its requests and its outcome
  ups               \* two invocations of `up` that run at the same time

os == <<tool, alive, listening, command, denied, lsof_ok>>
files == <<BACKEND_PID_FILE, ORCHESTRATOR_PID_FILE, ORCHESTRATOR_HEARTBEAT_FILE, OPSCTL_PID_FILE,
          CLI_PID_FILE>>
\* The HTTP side of the tools and the invocations of `up` that run side by
\* side; the supervision of a single invocation leaves them alone.
http == <<probe, wait, run, ups>>
supervision == <<tool, alive, listening, command, denied, lsof_ok, BACKEND_PID_FILE,
                 ORCHESTRATOR_PID_FILE, ORCHESTRATOR_HEARTBEAT_FILE, OPSCTL_PID_FILE,
                 CLI_PID_FILE, pc, args, loc, term, sent, logged, spawned, rc, quiet, ups>>
vars == <<tool, alive, listening, command, denied, lsof_ok, BACKEND_PID_FILE, ORCHESTRATOR_PID_FILE,
          ORCHESTRATOR_HEARTBEAT_FILE, OPSCTL_PID_FILE, CLI_PID_FILE, pc, args, loc, term, sent, logged,
          spawned, rc, quiet, probe, wait, run, ups>>

ProbeOff == [pc |-> "off"]

WaitOff == [pc |-> "off"]

RunOff == [pc |-> "off"]

Invocations == {1, 2}

UpsOff == [i \in Invocations |-> [pc |-> "off"]]

NoArgs == [command |-> "", flag |-> "", repeat |-> FALSE]

NoMsg == [kind |-> "", pid |-> 0, command |-> ""]

NoLoc ==
  [force |-> FALSE, python_bin |-> "", exit_code |-> EXIT_OK, owners |-> <<>>, idx |-> 0, failed |-> {},
   targets |-> <<>>, port_ok |-> FALSE, port_msg |-> NoMsg, pid_ok |-> FALSE,
   pid_msg |-> NoMsg, polls |-> 0]

TermOff ==
  [pc |-> "off", pid |-> 0, by |-> "", polls |-> 0, hist |-> <<>>, ok |-> FALSE, mode |-> ""]

InitialPidFiles == {NoFile} \cup {PidLine(p) : p \in PIDS}

Init ==
  /\ tool \in Tools
  /\ alive \in SUBSET PIDS
  /\ command \in [PIDS -> CommandsOf(tool) \cup {NoCommand}]
  /\ \A p \in PIDS : (command[p] = NoCommand) <=> (p \notin alive)
  /\ listening \in SUBSET {p \in alive : command[p] \notin {CmdOrch, CmdEditor}}
  /\ denied \in SUBSET {p \in alive : command[p] = CmdForeign}
  /\ lsof_ok \in BOOLEAN
  /\ BACKEND_PID_FILE = NoFile
  /\ ORCHESTRATOR_PID_FILE \in IF tool = "ops.main" THEN InitialPidFiles ELSE {NoFile}
  /\ ORCHESTRATOR_HEARTBEAT_FILE = (ORCHESTRATOR_PID_FILE # NoFile)
  /\ OPSCTL_PID_FILE = NoFile
  /\ CLI_PID_FILE = NoFile
  /\ pc = "idle"
  /\ args = NoArgs
  /\ loc = NoLoc
  /\ term = TermOff
  /\ sent = {}
  /\ logged = {}
  /\ spawned = {}
  /\ rc = EXIT_OK
  /\ quiet = FALSE
  /\ probe = ProbeOff
  /\ wait = WaitOff
  /\ run = RunOff
  /\ ups = UpsOff

\* ------------------------------------------------------- operating system
\* A process exits (by itself or because of a signal it received).  An exit
\* shows to the invocation only where it looks at that process: when it lists
\* the processes or the port, while _terminate_pid watches the pid, and to a
\* health probe when the process serves (or is about to serve) the port.  It
\* is taken there.
ExitShows(p) ==
  \/ pc \in {"idle", "orch_list", "port_stop", "pid_file", "up_collect", "opsctl_start"}
  \/ pc \in {"up_health", "up_wait"} /\ (p \in listening \/ command[p] = BackendCommand(tool))
  \/ term.pc \notin {"off", "done"} /\ term.pid = p

ProcessExit ==
  \E p \in alive :
    /\ ExitShows(p)
    /\ alive' = alive \ {p}
    /\ listening' = listening \ {p}
    /\ denied' = denied \ {p}
    /\ command' = [command EXCEPT ![p] = NoCommand]
    /\ UNCHANGED <<http, tool, lsof_ok, files, pc, args, loc, term, sent, logged, spawned, rc, quiet>>

\* A started backend binds the port once the port is free: between two
\* invocations, before a step that probes or inspects the port, and between the
\* terminate calls of a port stop (the port may have come free by then).  A
\* port that gains a listener ends the quiet period a repeated `down` counts on.
BackendBinds ==
  \E p \in alive \ listening :
    /\ command[p] = BackendCommand(tool)
    /\ listening = {}
    /\ pc \in {"idle", "up_health", "up_collect", "port_stop", "port_loop", "up_wait"}
    /\ listening' = {p}
    /\ quiet' = FALSE
    /\ args' = [args EXCEPT !.repeat = FALSE]
    /\ UNCHANGED <<http, tool, alive, command, denied, lsof_ok, files, pc, loc, term, sent, logged, spawned, rc>>

\* Some other program starts between two invocations; the system may hand
\* it a pid used before.
ProcessStarts ==
  \E p \in PIDS \ alive :
    /\ pc = "idle"
    /\ alive' = alive \cup {p}
    /\ command' = [command EXCEPT ![p] = CmdForeign]
    /\ quiet' = FALSE
    /\ UNCHANGED <<http, tool, listening, denied, lsof_ok, files, pc, args, loc, term, sent, logged, spawned, rc>>

_is_process_alive(pid) == pid \in alive

_command_line_for_pid(pid) == IF pid \in alive THEN command[pid] ELSE NoCommand

\* ---------------------------------------------------------- _terminate_pid
Call(pid, by) == [TermOff EXCEPT !.pc = "check", !.pid = pid, !.by = by]

Return(ok, mode, event) ==
  [term EXCEPT !.pc = "done", !.ok = ok, !.mode = mode, !.hist = Append(term.hist, event)]

Signal(sig) ==
  [pid |-> term.pid, sig |-> sig, by |-> term.by,
   safe |-> _is_safe_backend_command(_command_line_for_pid(term.pid))]

\* Mutant of TermCheckAlive: escalates at once, without the graceful signal.
TermCheckAliveEscalates ==
  /\ term.pc = "check"
  /\ IF ~_is_process_alive(term.pid)
       THEN term' = Return(TRUE, "not-running", "dead")
       ELSE term' = [term EXCEPT !.pc = "sigkill", !.hist = Append(term.hist, "alive")]
  /\ UNCHANGED <<http, os, files, pc, args, loc, sent, logged, spawned, rc, quiet>>

TermCheckAlive ==
  /\ term.pc = "check"
  /\ IF ~_is_process_alive(term.pid)
       THEN term' = Return(TRUE, "not-running", "dead")
       ELSE term' = [term EXCEPT !.pc = "sigterm", !.hist = Append(term.hist, "alive")]
  /\ UNCHANGED <<http, os, files, pc, args, loc, sent, logged, spawned, rc, quiet>>

\* Mutant of TermSigterm: a target that is gone when the signal is sent is an error.
TermSigtermLookupFails ==
  /\ term.pc = "sigterm"
  /\ IF term.pid \notin alive
       THEN term' = Return(FALSE, "SIGTERM failed", "ProcessLookupError") /\ sent' = sent
       ELSE IF term.pid \in denied
       THEN term' = Return(FALSE, "SIGTERM denied", "PermissionError") /\ sent' = sent
       ELSE /\ term' = [term EXCEPT !.pc = "grace", !.polls = 0, !.hist = Append(term.hist, "SIGTERM")]
            /\ sent' = sent \cup {Signal("SIGTERM")}
  /\ UNCHANGED <<http, os, files, pc, args, loc, logged, spawned, rc, quiet>>

TermSigterm ==
  /\ term.pc = "sigterm"
  /\ IF term.pid \notin alive
       THEN term' = Return(TRUE, "not-running", "ProcessLookupError") /\ sent' = sent
       ELSE IF term.pid \in denied
       THEN term' = Return(FALSE, "SIGTERM denied", "PermissionError") /\ sent' = sent
       ELSE /\ term' = [term EXCEPT !.pc = "grace", !.polls = 0, !.hist = Append(term.hist, "SIGTERM")]
            /\ sent' = sent \cup {Signal("SIGTERM")}
  /\ UNCHANGED <<http, os, files, pc, args, loc, logged, spawned, rc, quiet>>

TermGracePoll ==
  /\ term.pc = "grace"
  /\ term.polls < MaxPolls
  /\ IF ~_is_process_alive(term.pid)
       THEN term' = Return(TRUE, "sigterm", "dead")
       ELSE term' = [term EXCEPT !.polls = @ + 1, !.hist = Append(term.hist, "alive")]
  /\ UNCHANGED <<http, os, files, pc, args, loc, sent, logged, spawned, rc, quiet>>

\* Mutant of TermGraceElapsed: the grace loop has no deadline to pass.
TermGraceNeverElapses ==
  /\ term.pc = "grace"
  /\ term.polls > MaxPolls
  /\ term' = [term EXCEPT !.pc = "sigkill", !.polls = 0, !.hist = Append(term.hist, "elapsed")]
  /\ UNCHANGED <<http, os, files, pc, args, loc, sent, logged, spawned, rc, quiet>>

TermGraceElapsed ==
  /\ term.pc = "grace"
  /\ term' = [term EXCEPT !.pc = "sigkill", !.polls = 0, !.hist = Append(term.hist, "elapsed")]
  /\ UNCHANGED <<http, os, files, pc, args, loc, sent, logged, spawned, rc, quiet>>

TermSigkill ==
  /\ term.pc = "sigkill"
  /\ IF term.pid \notin alive
       THEN term' = Return(TRUE, "sigterm-late", "ProcessLookupError") /\ sent' = sent
       ELSE IF term.pid \in denied
       THEN term' = Return(FALSE, "SIGKILL denied", "PermissionError") /\ sent' = sent
       ELSE /\ term' = [term EXCEPT !.pc = "hard", !.polls = 0, !.hist = Append(term.hist, "SIGKILL")]
            /\ sent' = sent \cup {Signal("SIGKILL")}
  /\ UNCHANGED <<http, os, files, pc, args, loc, logged, spawned, rc, quiet>>

TermHardPoll ==
  /\ term.pc = "hard"
  /\ term.polls < MaxPolls
  /\ IF ~_is_process_alive(term.pid)
       THEN term' = Return(TRUE, "sigkill", "dead")
       ELSE term' = [term EXCEPT !.polls = @ + 1, !.hist = Append(term.hist, "alive")]
  /\ UNCHANGED <<http, os, files, pc, args, loc, sent, logged, spawned, rc, quiet>>

\* Mutant of TermHardElapsed: the hard deadline passes and success is reported.
TermHardElapsedReportsKilled ==
  /\ term.pc = "hard"
  /\ term' = Return(TRUE, "sigkill", "elapsed")
  /\ UNCHANGED <<http, os, files, pc, args, loc, sent, logged, spawned, rc, quiet>>

TermHardElapsed ==
  /\ term.pc = "hard"
  /\ term' = Return(FALSE, "still-running-after-sigkill", "elapsed")
  /\ UNCHANGED <<http, os, files, pc, args, loc, sent, logged, spawned, rc, quiet>>

_terminate_pid ==
  \/ TermCheckAlive
  \/ TermSigterm
  \/ TermGracePoll
  \/ TermGraceElapsed
  \/ TermSigkill
  \/ TermHardPoll
  \/ TermHardElapsed

\* ------------------------------------------------------------ command line
\* _add_force_arg: --force is store_true with default True, --no-force stores False.
Flags == {"none", "--force", "--no-force"}

ParseForce(flag) == IF flag = "--no-force" THEN FALSE ELSE TRUE

\* --------------------------------------------------- _collect_port_owners
_listening_pids_on_port == IF lsof_ok THEN SortedSeq(listening) ELSE <<>>

\* termination is owner["termination"]: unset until _terminate_pid has returned.
Owner(pid) ==
  LET cmd == _command_line_for_pid(pid)
  IN  [pid |-> pid, command |-> cmd, safe_to_kill |-> _is_safe_backend_command(cmd),
       termination |-> ""]

_collect_port_owners ==
  LET pids == _listening_pids_on_port
  IN  [i \in 1..Len(pids) |-> Owner(pids[i])]

\* Mutant of inspect_error: a failed enumeration reads as an empty one.
InspectErrorDropped == FALSE

inspect_error == ~lsof_ok

OrUnknown(cmd) == IF cmd = NoCommand THEN "(unknown)" ELSE cmd

\* --------------------------------------------- _stop_orchestrator_processes
IsOrchestratorCommand(cmd) ==
  Contains(Lower(cmd), OPS_MAIN_FRAGMENT) /\ Contains(Lower(cmd), OPS_REPO_FRAGMENT)

_list_orchestrator_processes == {p \in alive : IsOrchestratorCommand(command[p])}

Targets ==
  LET listed == _list_orchestrator_processes
      pid_from_file == _read_pid_file(ORCHESTRATOR_PID_FILE)
      pids == IF pid_from_file # None /\ pid_from_file \notin listed
                THEN listed \cup {pid_from_file} ELSE listed
      order == SortedSeq(pids)
  IN  [i \in 1..Len(order) |->
         [pid |-> order[i],
          command |-> IF order[i] \in listed THEN command[order[i]]
                      ELSE _command_line_for_pid(order[i])]]

\* The filter before the kill: skipped when neither fragment is in the command.
NotOpsMain(cmd) ==
  ~Contains(Lower(cmd), OPS_MAIN_FRAGMENT) /\ ~Contains(Lower(cmd), OPS_REPO_FRAGMENT)

OrchList ==
  /\ pc = "orch_list"
  /\ loc' = [loc EXCEPT !.targets = Targets, !.idx = 1]
  /\ pc' = "orch_loop"
  /\ UNCHANGED <<http, os, files, args, term, sent, logged, spawned, rc, quiet>>

OrchSkip ==
  /\ pc = "orch_loop"
  /\ loc.idx <= Len(loc.targets)
  /\ LET t == loc.targets[loc.idx]
     IN  t.command = NoCommand \/ NotOpsMain(t.command)
  /\ loc' = [loc EXCEPT !.idx = @ + 1]
  /\ UNCHANGED <<http, os, files, pc, args, term, sent, logged, spawned, rc, quiet>>

OrchKill ==
  /\ pc = "orch_loop"
  /\ loc.idx <= Len(loc.targets)
  /\ LET t == loc.targets[loc.idx]
     IN  /\ t.command # NoCommand
         /\ ~NotOpsMain(t.command)
         /\ term' = Call(t.pid, "orch")
  /\ pc' = "orch_wait"
  /\ UNCHANGED <<http, os, files, args, loc, sent, logged, spawned, rc, quiet>>

OrchKilled ==
  /\ pc = "orch_wait"
  /\ term.pc = "done"
  /\ term' = TermOff
  /\ loc' = [loc EXCEPT !.idx = @ + 1]
  /\ pc' = "orch_loop"
  /\ UNCHANGED <<http, os, files, args, sent, logged, spawned, rc, quiet>>

OrchDone ==
  /\ pc = "orch_loop"
  /\ loc.idx > Len(loc.targets)
  /\ ORCHESTRATOR_PID_FILE' = NoFile
  /\ ORCHESTRATOR_HEARTBEAT_FILE' = FALSE
  /\ loc' = [loc EXCEPT !.targets = <<>>, !.idx = 0]
  /\ pc' = "port_stop"
  /\ UNCHANGED <<http, os, BACKEND_PID_FILE, OPSCTL_PID_FILE, CLI_PID_FILE, args, term, sent, logged, spawned, rc, quiet>>

_stop_orchestrator_processes ==
  \/ OrchList
  \/ OrchSkip
  \/ OrchKill
  \/ OrchKilled
  \/ OrchDone

\* ---------------------------------------------------- _stop_backend_on_port
\* Mutant of PortReturn: cmd_up goes on to the start whatever the result.
PortReturnStartsAnyway(ok, msg, owners) ==
  /\ loc' = [loc EXCEPT !.port_ok = ok, !.port_msg = msg, !.idx = 0, !.failed = {},
                        !.owners = IF args.command = "down" THEN owners ELSE <<>>,
                        !.exit_code = IF args.command = "down" /\ ~ok THEN EXIT_FAIL ELSE @]
  /\ pc' = IF args.command = "down" THEN "pid_file" ELSE "up_start"
  /\ rc' = rc

\* Where the caller goes on: cmd_down to the pid file, cmd_up to the start.
PortReturn(ok, msg, owners) ==
  /\ loc' = [loc EXCEPT !.port_ok = ok, !.port_msg = msg, !.idx = 0, !.failed = {},
                        !.owners = IF args.command = "down" THEN owners ELSE <<>>,
                        !.exit_code = IF args.command = "down" /\ ~ok THEN EXIT_FAIL ELSE @]
  /\ pc' = IF args.command = "down" THEN "pid_file" ELSE IF ok THEN "up_start" ELSE "done"
  /\ rc' = IF args.command # "down" /\ ~ok THEN EXIT_FAIL ELSE rc

Unsafe(owners) == {i \in 1..Len(owners) : ~owners[i].safe_to_kill}

FirstUnsafe(owners) == owners[CHOOSE i \in Unsafe(owners) : \A j \in Unsafe(owners) : i <= j]

PortInspectFailed ==
  /\ pc = "port_stop"
  /\ inspect_error
  /\ PortReturn(FALSE, [kind |-> "inspect-failed", pid |-> 0, command |-> ""], _collect_port_owners)
  /\ UNCHANGED <<http, os, files, args, term, sent, logged, spawned, quiet>>

PortNoListener ==
  /\ pc = "port_stop"
  /\ ~inspect_error
  /\ Len(_collect_port_owners) = 0
  /\ PortReturn(TRUE, [kind |-> "no-listener", pid |-> 0, command |-> ""], <<>>)
  /\ UNCHANGED <<http, os, files, args, term, sent, logged, spawned, quiet>>

PortRefuse ==
  /\ pc = "port_stop"
  /\ ~inspect_error
  /\ LET owners == _collect_port_owners
     IN  /\ Len(owners) > 0
         /\ ~loc.force
         /\ Unsafe(owners) # {}
         /\ LET owner == FirstUnsafe(owners)
            IN  PortReturn(FALSE, [kind |-> "refused", pid |-> owner.pid,
                                   command |-> OrUnknown(owner.command)], owners)
  /\ UNCHANGED <<http, os, files, args, term, sent, logged, spawned, quiet>>

\* Mutant of PortKillAll: the kill loop is entered whatever the allowlist says.
PortKillAllUngated ==
  /\ pc = "port_stop"
  /\ ~inspect_error
  /\ LET owners == _collect_port_owners
     IN  /\ Len(owners) > 0
         /\ loc' = [loc EXCEPT !.owners = owners, !.idx = 1, !.failed = {}]
  /\ pc' = "port_loop"
  /\ UNCHANGED <<http, os, files, args, term, sent, logged, spawned, rc, quiet>>

PortKillAll ==
  /\ pc = "port_stop"
  /\ ~inspect_error
  /\ LET owners == _collect_port_owners
     IN  /\ Len(owners) > 0
         /\ loc.force \/ Unsafe(owners) = {}
         /\ loc' = [loc EXCEPT !.owners = owners, !.idx = 1, !.failed = {}]
  /\ pc' = "port_loop"
  /\ UNCHANGED <<http, os, files, args, term, sent, logged, spawned, rc, quiet>>

\* _ops_log: the line is appended to the day's log file, or the error of the
\* open or of the write is swallowed and nothing is appended.
_ops_log(log, entry, appended) == IF appended THEN log \cup {entry} ELSE log

ForceKillEntry(pid, by) == [kind |-> "FORCE-KILL", pid |-> pid, by |-> by]

\* One turn of the kill loop: the FORCE-KILL line, then the terminate call.
PortKill ==
  /\ pc = "port_loop"
  /\ loc.idx <= Len(loc.owners)
  /\ LET owner == loc.owners[loc.idx]
     IN  /\ \E appended \in BOOLEAN :
              logged' = IF loc.force /\ ~owner.safe_to_kill
                          THEN _ops_log(logged, ForceKillEntry(owner.pid, "port"), appended)
                          ELSE logged
         /\ term' = Call(owner.pid, "port")
  /\ pc' = "port_wait"
  /\ UNCHANGED <<http, os, files, args, loc, sent, spawned, rc, quiet>>

PortKilled ==
  /\ pc = "port_wait"
  /\ term.pc = "done"
  /\ loc' = [loc EXCEPT !.owners[loc.idx].termination = term.mode,
                        !.failed = IF term.ok THEN @ ELSE @ \cup {term.pid},
                        !.idx = @ + 1]
  /\ term' = TermOff
  /\ pc' = "port_loop"
  /\ UNCHANGED <<http, os, files, args, sent, logged, spawned, rc, quiet>>

PortStopped ==
  /\ pc = "port_loop"
  /\ loc.idx > Len(loc.owners)
  /\ IF loc.failed # {}
       THEN PortReturn(FALSE, [kind |-> "failed", pid |-> 0, command |-> ""], loc.owners)
       ELSE PortReturn(TRUE, [kind |-> "stopped", pid |-> 0, command |-> ""], loc.owners)
  /\ UNCHANGED <<http, os, files, args, term, sent, logged, spawned, quiet>>

_stop_backend_on_port ==
  \/ PortInspectFailed
  \/ PortNoListener
  \/ PortRefuse
  \/ PortKillAll
  \/ PortKill
  \/ PortKilled
  \/ PortStopped

\* ----------------------------------------------- _stop_backend_from_pid_file
seen_pids == {loc.owners[i].pid : i \in 1..Len(loc.owners)}

PidFileReturn(ok, kind, pid) ==
  /\ loc' = [loc EXCEPT !.pid_ok = ok, !.pid_msg = [kind |-> kind, pid |-> pid, command |-> ""],
                        !.exit_code = IF ok THEN @ ELSE EXIT_FAIL]
  /\ pc' = "down_end"

PidFileNone ==
  /\ pc = "pid_file"
  /\ _read_pid_file(BACKEND_PID_FILE) = None
  /\ PidFileReturn(TRUE, "", 0)
  /\ UNCHANGED <<http, os, files, args, term, sent, logged, spawned, rc, quiet>>

PidFileExcluded ==
  /\ pc = "pid_file"
  /\ LET pid == _read_pid_file(BACKEND_PID_FILE)
     IN  /\ pid # None
         /\ pid \in seen_pids
         /\ PidFileReturn(TRUE, "", pid)
  /\ BACKEND_PID_FILE' = NoFile
  /\ UNCHANGED <<http, os, ORCHESTRATOR_PID_FILE, ORCHESTRATOR_HEARTBEAT_FILE, OPSCTL_PID_FILE, CLI_PID_FILE, args, term, sent, logged,
                 spawned, rc, quiet>>

\* Mutant of PidFileStale: the stale record is reported and left in place.
PidFileStaleKept ==
  /\ pc = "pid_file"
  /\ LET pid == _read_pid_file(BACKEND_PID_FILE)
     IN  /\ pid # None
         /\ pid \notin seen_pids
         /\ ~_is_process_alive(pid)
         /\ PidFileReturn(TRUE, "removed-stale", pid)
  /\ UNCHANGED <<http, os, files, args, term, sent, logged, spawned, rc, quiet>>

PidFileStale ==
  /\ pc = "pid_file"
  /\ LET pid == _read_pid_file(BACKEND_PID_FILE)
     IN  /\ pid # None
         /\ pid \notin seen_pids
         /\ ~_is_process_alive(pid)
         /\ PidFileReturn(TRUE, "removed-stale", pid)
  /\ BACKEND_PID_FILE' = NoFile
  /\ UNCHANGED <<http, os, ORCHESTRATOR_PID_FILE, ORCHESTRATOR_HEARTBEAT_FILE, OPSCTL_PID_FILE, CLI_PID_FILE, args, term, sent, logged,
                 spawned, rc, quiet>>

\* Mutant of PidFileRefuse: the refusal does not look at force.
PidFileRefuseForced ==
  /\ pc = "pid_file"
  /\ LET pid == _read_pid_file(BACKEND_PID_FILE)
     IN  /\ pid # None
         /\ pid \notin seen_pids
         /\ _is_process_alive(pid)
         /\ ~_is_safe_backend_command(_command_line_for_pid(pid))
         /\ PidFileReturn(FALSE, "refused", pid)
  /\ UNCHANGED <<http, os, files, args, term, sent, logged, spawned, rc, quiet>>

PidFileRefuse ==
  /\ pc = "pid_file"
  /\ LET pid == _read_pid_file(BACKEND_PID_FILE)
     IN  /\ pid # None
         /\ pid \notin seen_pids
         /\ _is_process_alive(pid)
         /\ ~_is_safe_backend_command(_command_line_for_pid(pid))
         /\ ~loc.force
         /\ PidFileReturn(FALSE, "refused", pid)
  /\ UNCHANGED <<http, os, files, args, term, sent, logged, spawned, rc, quiet>>

PidFileKill ==
  /\ pc = "pid_file"
  /\ LET pid == _read_pid_file(BACKEND_PID_FILE)
     IN  /\ pid # None
         /\ pid \notin seen_pids
         /\ _is_process_alive(pid)
         /\ _is_safe_backend_command(_command_line_for_pid(pid)) \/ loc.force
         /\ \E appended \in BOOLEAN :
              logged' = IF ~_is_safe_backend_command(_command_line_for_pid(pid)) /\ loc.force
                          THEN _ops_log(logged, ForceKillEntry(pid, "pidfile"), appended)
                          ELSE logged
         /\ term' = Call(pid, "pidfile")
  /\ pc' = "pid_file_wait"
  /\ UNCHANGED <<http, os, files, args, loc, sent, spawned, rc, quiet>>

PidFileKilled ==
  /\ pc = "pid_file_wait"
  /\ term.pc = "done"
  /\ IF term.ok
       THEN /\ BACKEND_PID_FILE' = NoFile
            /\ PidFileReturn(TRUE, "stopped", term.pid)
       ELSE /\ BACKEND_PID_FILE' = BACKEND_PID_FILE
            /\ PidFileReturn(FALSE, "failed", term.pid)
  /\ term' = TermOff
  /\ UNCHANGED <<http, os, ORCHESTRATOR_PID_FILE, ORCHESTRATOR_HEARTBEAT_FILE, OPSCTL_PID_FILE, CLI_PID_FILE, args, sent, logged, spawned,
                 rc, quiet>>

_stop_backend_from_pid_file ==
  \/ PidFileNone
  \/ PidFileExcluded
  \/ PidFileStale
  \/ PidFileRefuse
  \/ PidFileKill
  \/ PidFileKilled

\* ---------------------------------------------------------------- cmd_down
DownBegin ==
  /\ pc = "idle"
  /\ tool = "ops.main"
  /\ \E flag \in Flags :
       /\ args' = [command |-> "down", flag |-> flag, repeat |-> quiet]
       /\ loc' = [NoLoc EXCEPT !.force = ParseForce(flag), !.exit_code = EXIT_OK]
  /\ pc' = "orch_list"
  /\ quiet' = FALSE
  /\ UNCHANGED <<http, os, files, term, sent, logged, spawned, rc>>

\* Mutant of DownEnd: the backend record is never removed at the end.
DownEndKeepsRecord ==
  /\ pc = "down_end"
  /\ ORCHESTRATOR_PID_FILE' = NoFile
  /\ ORCHESTRATOR_HEARTBEAT_FILE' = FALSE
  /\ rc' = loc.exit_code
  /\ quiet' = (loc.exit_code = EXIT_OK)
  /\ pc' = "done"
  /\ loc' = [loc EXCEPT !.owners = <<>>]
  /\ UNCHANGED <<http, os, BACKEND_PID_FILE, OPSCTL_PID_FILE, CLI_PID_FILE, args, term, sent, logged, spawned>>

\* _remove_runtime_files(remove_backend_pid=(exit_code == EXIT_OK)) and the return.
DownEnd ==
  /\ pc = "down_end"
  /\ BACKEND_PID_FILE' = IF loc.exit_code = EXIT_OK THEN NoFile ELSE BACKEND_PID_FILE
  /\ ORCHESTRATOR_PID_FILE' = NoFile
  /\ ORCHESTRATOR_HEARTBEAT_FILE' = FALSE
  /\ rc' = loc.exit_code
  /\ quiet' = (loc.exit_code = EXIT_OK)
  /\ pc' = "done"
  /\ loc' = [loc EXCEPT !.owners = <<>>]
  /\ UNCHANGED <<http, os, OPSCTL_PID_FILE, CLI_PID_FILE, args, term, sent, logged, spawned>>

cmd_down ==
  \/ DownBegin
  \/ DownEnd

\* -------------------------------------------------------------- health_once
\* The probe can succeed only if something answers on the port.
CanBeHealthy == listening # {}

\* ------------------------------------------------------------------ cmd_up
UpReturn(code) ==
  /\ pc' = IF args.command = "demo" /\ code = EXIT_OK THEN "demo_smoke" ELSE "done"
  /\ rc' = IF args.command = "demo" /\ code = EXIT_OK THEN rc ELSE code

UpBegin ==
  /\ pc = "idle"
  /\ tool = "ops.main"
  /\ \E flag \in Flags :
       /\ args' = [command |-> "up", flag |-> flag, repeat |-> FALSE]
       /\ loc' = [NoLoc EXCEPT !.force = ParseForce(flag)]
  /\ pc' = "up_health"
  /\ quiet' = FALSE
  /\ UNCHANGED <<http, os, files, term, sent, logged, spawned, rc>>

\* Mutant of UpAlreadyHealthy: a healthy backend is started over.
UpAlreadyHealthyRestarts ==
  /\ pc = "up_health"
  /\ CanBeHealthy
  /\ pc' = "up_start"
  /\ UNCHANGED <<http, os, files, args, loc, term, sent, logged, spawned, rc, quiet>>

UpAlreadyHealthy ==
  /\ pc = "up_health"
  /\ CanBeHealthy
  /\ UpReturn(EXIT_OK)
  /\ UNCHANGED <<http, os, files, args, loc, term, sent, logged, spawned, quiet>>

UpNotHealthy ==
  /\ pc = "up_health"
  /\ pc' = "up_collect"
  /\ UNCHANGED <<http, os, files, args, loc, term, sent, logged, spawned, rc, quiet>>

UpInspectFailed ==
  /\ pc = "up_collect"
  /\ inspect_error
  /\ UpReturn(EXIT_FAIL)
  /\ loc' = [loc EXCEPT !.port_msg = [kind |-> "inspect-failed", pid |-> 0, command |-> ""]]
  /\ UNCHANGED <<http, os, files, args, term, sent, logged, spawned, quiet>>

UpPortOwned ==
  /\ pc = "up_collect"
  /\ ~inspect_error
  /\ Len(_collect_port_owners) > 0
  /\ pc' = "port_stop"
  /\ UNCHANGED <<http, os, files, args, loc, term, sent, logged, spawned, rc, quiet>>

UpPortFree ==
  /\ pc = "up_collect"
  /\ ~inspect_error
  /\ Len(_collect_port_owners) = 0
  /\ pc' = "up_start"
  /\ UNCHANGED <<http, os, files, args, loc, term, sent, logged, spawned, rc, quiet>>

\* ai_root.exists() is false.
UpNoRepo ==
  /\ pc = "up_start"
  /\ UpReturn(EXIT_FAIL)
  /\ loc' = [loc EXCEPT !.port_msg = [kind |-> "no-repo", pid |-> 0, command |-> ""]]
  /\ UNCHANGED <<http, os, files, args, term, sent, logged, spawned, quiet>>

\* _find_backend_python: $DPOLARIS_PYTHON if it exists, else the first of
\* .venv/bin/python, .venv/bin/python3 that exists, else None.
PythonCandidates == <<"DPOLARIS_PYTHON", ".venv/bin/python", ".venv/bin/python3">>

_find_backend_python(existing) ==
  IF \E i \in 1..Len(PythonCandidates) : PythonCandidates[i] \in existing
    THEN PythonCandidates[CHOOSE i \in 1..Len(PythonCandidates) :
                            /\ PythonCandidates[i] \in existing
                            /\ \A j \in 1..(i - 1) : PythonCandidates[j] \notin existing]
    ELSE "None"

StartFindPython ==
  /\ pc = "up_start"
  /\ \E existing \in SUBSET Range(PythonCandidates) :
       loc' = [loc EXCEPT !.python_bin = _find_backend_python(existing)]
  /\ pc' = "start_backend"
  /\ UNCHANGED <<http, os, files, args, term, sent, logged, spawned, rc, quiet>>

StartNoPython ==
  /\ pc = "start_backend"
  /\ loc.python_bin = "None"
  /\ UpReturn(EXIT_FAIL)
  /\ loc' = [loc EXCEPT !.port_msg = [kind |-> "missing-python", pid |-> 0, command |-> ""]]
  /\ UNCHANGED <<http, os, files, args, term, sent, logged, spawned, quiet>>

\* subprocess.Popen raises.
StartPopenFailed ==
  /\ pc = "start_backend"
  /\ loc.python_bin # "None"
  /\ UpReturn(EXIT_FAIL)
  /\ loc' = [loc EXCEPT !.port_msg = [kind |-> "popen-failed", pid |-> 0, command |-> ""],
                        !.python_bin = ""]
  /\ UNCHANGED <<http, os, files, args, term, sent, logged, spawned, quiet>>

\* Mutant of StartSpawn: spawns without looking at the interpreter found.
StartSpawnUnchecked ==
  /\ pc = "start_backend"
  /\ \E pid \in PIDS \ alive, outcome \in WriteOutcomes :
       /\ alive' = alive \cup {pid}
       /\ command' = [command EXCEPT ![pid] = BackendCommand(tool)]
       /\ BACKEND_PID_FILE' = WriteText(BACKEND_PID_FILE, PidLine(pid), outcome)
       /\ spawned' = spawned \cup {pid}
       /\ loc' = [loc EXCEPT !.port_msg = [kind |-> "started", pid |-> pid, command |-> ""],
                             !.polls = 0, !.python_bin = ""]
  /\ pc' = "up_wait"
  /\ UNCHANGED <<http, tool, listening, denied, lsof_ok, ORCHESTRATOR_PID_FILE,
                 ORCHESTRATOR_HEARTBEAT_FILE, OPSCTL_PID_FILE, CLI_PID_FILE, args, term, sent, logged, rc,
                 quiet>>

\* The process is spawned and its pid written; an error of the write is ignored.
StartSpawn ==
  /\ pc = "start_backend"
  /\ loc.python_bin # "None"
  /\ \E pid \in PIDS \ alive, outcome \in WriteOutcomes :
       /\ alive' = alive \cup {pid}
       /\ command' = [command EXCEPT ![pid] = BackendCommand(tool)]
       /\ BACKEND_PID_FILE' = WriteText(BACKEND_PID_FILE, PidLine(pid), outcome)
       /\ spawned' = spawned \cup {pid}
       /\ loc' = [loc EXCEPT !.port_msg = [kind |-> "started", pid |-> pid, command |-> ""],
                             !.polls = 0, !.python_bin = ""]
  /\ pc' = "up_wait"
  /\ UNCHANGED <<http, tool, listening, denied, lsof_ok, ORCHESTRATOR_PID_FILE,
                 ORCHESTRATOR_HEARTBEAT_FILE, OPSCTL_PID_FILE, CLI_PID_FILE, args, term, sent, logged, rc,
                 quiet>>

_start_backend ==
  \/ StartFindPython
  \/ StartNoPython
  \/ StartPopenFailed
  \/ StartSpawn

\* wait_healthy, and the caller's exit code for its result.
WaitReturn(ok) ==
  CASE tool = "ops.main" -> UpReturn(IF ok THEN EXIT_OK ELSE EXIT_FAIL)
    [] tool = "opsctl" -> pc' = "done" /\ rc' = (IF ok THEN 0 ELSE 1)
    [] OTHER -> pc' = "done" /\ rc' = (IF ok THEN 0 ELSE 2)

WaitHealthy ==
  /\ pc = "up_wait"
  /\ loc.polls < MaxPolls
  /\ CanBeHealthy
  /\ WaitReturn(TRUE)
  /\ UNCHANGED <<http, os, files, args, loc, term, sent, logged, spawned, quiet>>

WaitSleep ==
  /\ pc = "up_wait"
  /\ loc.polls < MaxPolls
  /\ loc' = [loc EXCEPT !.polls = @ + 1]
  /\ UNCHANGED <<http, os, files, pc, args, term, sent, logged, spawned, rc, quiet>>

WaitTimeout ==
  /\ pc = "up_wait"
  /\ WaitReturn(FALSE)
  /\ UNCHANGED <<http, os, files, args, loc, term, sent, logged, spawned, quiet>>

wait_healthy ==
  \/ WaitHealthy
  \/ WaitSleep
  \/ WaitTimeout

cmd_up ==
  \/ UpBegin
  \/ UpAlreadyHealthy
  \/ UpNotHealthy
  \/ UpInspectFailed
  \/ UpPortOwned
  \/ UpPortFree
  \/ UpNoRepo
  \/ _start_backend
  \/ wait_healthy

\* ---------------------------------------------------------------- cmd_demo
\* cmd_up with force=True, then the two smoke commands (HTTP only).
DemoBegin ==
  /\ pc = "idle"
  /\ tool = "ops.main"
  /\ args' = [command |-> "demo", flag |-> "none", repeat |-> FALSE]
  /\ loc' = [NoLoc EXCEPT !.force = TRUE]
  /\ pc' = "up_health"
  /\ quiet' = FALSE
  /\ UNCHANGED <<http, os, files, term, sent, logged, spawned, rc>>

DemoSmoke ==
  /\ pc = "demo_smoke"
  /\ \E code \in {EXIT_OK, EXIT_FAIL} : rc' = code
  /\ pc' = "done"
  /\ UNCHANGED <<http, os, files, args, loc, term, sent, logged, spawned, quiet>>

cmd_demo ==
  \/ DemoBegin
  \/ DemoSmoke

\* ------------------------------------------- opsctl: command_start_backend
\* find_port_owner_pid: the pid of a listener, or None if none is found (also
\* when the inspection fails).
OwnerCandidates == IF lsof_ok THEN listening ELSE {}

OpsctlStartBegin ==
  /\ pc = "idle"
  /\ tool = "opsctl"
  /\ \E exists \in BOOLEAN :
       /\ args' = [command |-> "start-backend", flag |-> "none", repeat |-> FALSE]
       /\ loc' = [NoLoc EXCEPT !.python_bin = IF exists THEN "AI_PYTHON" ELSE "None"]
  /\ pc' = "opsctl_start"
  /\ quiet' = FALSE
  /\ UNCHANGED <<http, os, files, term, sent, logged, spawned, rc>>

OpsctlNoPython ==
  /\ pc = "opsctl_start"
  /\ loc.python_bin = "None"
  /\ loc' = [loc EXCEPT !.port_msg = [kind |-> "missing-python", pid |-> 0, command |-> ""]]
  /\ rc' = 1
  /\ pc' = "done"
  /\ UNCHANGED <<http, os, files, args, term, sent, logged, spawned, quiet>>

OpsctlPortFree ==
  /\ pc = "opsctl_start"
  /\ loc.python_bin # "None"
  /\ OwnerCandidates = {}
  /\ pc' = "opsctl_spawn"
  /\ UNCHANGED <<http, os, files, args, loc, term, sent, logged, spawned, rc, quiet>>

\* kill_pid: taskkill /T /F on Windows, SIGTERM elsewhere; errors ignored.
OpsctlStopOwner ==
  /\ pc = "opsctl_start"
  /\ loc.python_bin # "None"
  /\ \E owner \in OwnerCandidates, os_name \in {"nt", "posix"} :
       /\ is_expected_backend_cmdline(_command_line_for_pid(owner))
       /\ sent' = sent \cup {[pid |-> owner, sig |-> IF os_name = "nt" THEN "taskkill" ELSE "SIGTERM",
                              by |-> "opsctl", safe |-> TRUE]}
  /\ pc' = "opsctl_spawn"
  /\ UNCHANGED <<http, os, files, args, loc, term, logged, spawned, rc, quiet>>

OpsctlRefuse ==
  /\ pc = "opsctl_start"
  /\ loc.python_bin # "None"
  /\ \E owner \in OwnerCandidates :
       /\ ~is_expected_backend_cmdline(_command_line_for_pid(owner))
       /\ loc' = [loc EXCEPT !.port_msg = [kind |-> "refused", pid |-> owner,
                                           command |-> _command_line_for_pid(owner)]]
  /\ rc' = 1
  /\ pc' = "done"
  /\ UNCHANGED <<http, os, files, args, term, sent, logged, spawned, quiet>>

\* Popen, then PID_FILE.write_text outside any try: an error ends the command.
OpsctlSpawn ==
  /\ pc = "opsctl_spawn"
  /\ \E pid \in PIDS \ alive, outcome \in WriteOutcomes :
       /\ alive' = alive \cup {pid}
       /\ command' = [command EXCEPT ![pid] = BackendCommand(tool)]
       /\ OPSCTL_PID_FILE' = WriteText(OPSCTL_PID_FILE, PidText(pid), outcome)
       /\ spawned' = spawned \cup {pid}
       /\ loc' = [loc EXCEPT !.port_msg = [kind |-> "started", pid |-> pid, command |-> ""],
                             !.polls = 0, !.python_bin = ""]
       /\ IF outcome = "written"
            THEN pc' = "up_wait" /\ rc' = rc
            ELSE pc' = "done" /\ rc' = 1
  /\ UNCHANGED <<http, tool, listening, denied, lsof_ok, BACKEND_PID_FILE, ORCHESTRATOR_PID_FILE,
                 ORCHESTRATOR_HEARTBEAT_FILE, CLI_PID_FILE, args, term, sent, logged, quiet>>

command_start_backend ==
  \/ OpsctlStartBegin
  \/ OpsctlNoPython
  \/ OpsctlPortFree
  \/ OpsctlStopOwner
  \/ OpsctlRefuse
  \/ OpsctlSpawn

\* ---------------------------------------------- ops_cli: cmd_start_backend
CliStartBegin ==
  /\ pc = "idle"
  /\ tool = "ops_cli"
  /\ \E exists \in BOOLEAN :
       /\ args' = [command |-> "start-backend", flag |-> "none", repeat |-> FALSE]
       /\ loc' = [NoLoc EXCEPT !.python_bin = IF exists THEN "python.exe" ELSE "None"]
  /\ pc' = "cli_start"
  /\ quiet' = FALSE
  /\ UNCHANGED <<http, os, files, term, sent, logged, spawned, rc>>

CliNoPython ==
  /\ pc = "cli_start"
  /\ loc.python_bin = "None"
  /\ loc' = [loc EXCEPT !.port_msg = [kind |-> "missing-python", pid |-> 0, command |-> ""]]
  /\ rc' = 2
  /\ pc' = "done"
  /\ UNCHANGED <<http, os, files, args, term, sent, logged, spawned, quiet>>

CliSpawn ==
  /\ pc = "cli_start"
  /\ loc.python_bin # "None"
  /\ \E pid \in PIDS \ alive, outcome \in WriteOutcomes :
       /\ alive' = alive \cup {pid}
       /\ command' = [command EXCEPT ![pid] = BackendCommand(tool)]
       /\ CLI_PID_FILE' = WriteText(CLI_PID_FILE, PidText(pid), outcome)
       /\ spawned' = spawned \cup {pid}
       /\ loc' = [loc EXCEPT !.port_msg = [kind |-> "started", pid |-> pid, command |-> ""],
                             !.polls = 0, !.python_bin = ""]
       /\ IF outcome = "written"
            THEN pc' = "up_wait" /\ rc' = rc
            ELSE pc' = "done" /\ rc' = 1
  /\ UNCHANGED <<http, tool, listening, denied, lsof_ok, BACKEND_PID_FILE, ORCHESTRATOR_PID_FILE,
                 ORCHESTRATOR_HEARTBEAT_FILE, OPSCTL_PID_FILE, args, term, sent, logged, quiet>>

cmd_start_backend ==
  \/ CliStartBegin
  \/ CliNoPython
  \/ CliSpawn

\* The invocation has exited; the next one starts from scratch.
Exit ==
  /\ pc = "done"
  /\ pc' = "idle"
  /\ args' = NoArgs
  /\ loc' = NoLoc
  /\ sent' = {}
  /\ logged' = {}
  /\ spawned' = {}
  /\ rc' = EXIT_OK
  /\ UNCHANGED <<http, os, files, term, quiet>>

Next ==
  \/ ProcessExit
  \/ BackendBinds
  \/ ProcessStarts
  \/ _terminate_pid
  \/ _stop_orchestrator_processes
  \/ _stop_backend_on_port
  \/ _stop_backend_from_pid_file
  \/ cmd_down
  \/ cmd_up
  \/ cmd_demo
  \/ command_start_backend
  \/ cmd_start_backend
  \/ Exit

Spec == Init /\ [][Next]_vars


\* ============================================================ HTTP probes
\* JSON values, by their type and by what str() prints for them.
Absent == [t |-> "absent", v |-> ""]
Null == [t |-> "null", v |-> "None"]
Str(s) == [t |-> "str", v |-> s]
Number == [t |-> "num", v |-> "7"]

\* str.strip()
StrStrip(s) ==
  CASE s = "  " -> ""
    [] s = " OK " -> "OK"
    [] s = " b " -> "b"
    [] s = " SUCCESS " -> "SUCCESS"
    [] OTHER -> s

\* Payloads: a JSON object (the fields the tools read), another JSON value, a
\* plain text, or None.
EmptyDict ==
  [kind |-> "dict", raw |-> Absent, status |-> Absent, id |-> Absent, job_id |-> Absent,
   jobId |-> Absent, error |-> Absent, model_path |-> Absent, artifact_path |-> Absent]
NoPayload == [EmptyDict EXCEPT !.kind = "none"]
JsonList == [EmptyDict EXCEPT !.kind = "list"]
RawDict(text) == [EmptyDict EXCEPT !.raw = Str(text)]
Text(text) == [EmptyDict EXCEPT !.kind = "text", !.raw = Str(text)]

IsDict(payload) == payload.kind = "dict"

\* dict.get(key) and dict.get(key, "")
Get(payload, key) == IF payload[key].t = "absent" THEN Null ELSE payload[key]
GetOrEmpty(payload, key) == IF payload[key].t = "absent" THEN Str("") ELSE payload[key]

StatusValues ==
  {Absent, Null, Number, Str(""), Str("  "), Str("ok"), Str(" OK "), Str("Healthy"),
   Str("RUNNING"), Str("degraded")}

HealthDicts == {[EmptyDict EXCEPT !.status = v] : v \in StatusValues}

JobDicts ==
  {[EmptyDict EXCEPT !.id = a, !.job_id = b, !.jobId = c] :
     a \in {Absent, Null, Str("  "), Str("a")},
     b \in {Absent, Null, Str(""), Str(" b ")},
     c \in {Absent, Number}}

\* Response bodies: nothing, white space, a text that is no JSON, a JSON text.
EmptyBody == [kind |-> "empty", text |-> "", value |-> NoPayload]
BlankBody == [kind |-> "blank", text |-> "  ", value |-> NoPayload]
TextBody == [kind |-> "text", text |-> "OK", value |-> NoPayload]
JsonBody(value) == [kind |-> "json", text |-> "{..}", value |-> value]

Bodies == {EmptyBody, BlankBody, TextBody} \cup {JsonBody(v) : v \in HealthDicts \cup JobDicts \cup {JsonList}}

\* The final status codes a server answers with (304: a redirect status the
\* HTTP library does not follow).
HttpStatuses == {200, 304, 404, 500}

NetworkError == [net |-> TRUE, status |-> None, body |-> EmptyBody]

Responses == {NetworkError} \cup {[net |-> FALSE, status |-> c, body |-> b] : c \in HttpStatuses, b \in Bodies}

Result(ok, status, payload, error) == [ok |-> ok, status |-> status, payload |-> payload, error |-> error]
NoResult == Result(FALSE, None, NoPayload, "")

\* payload = resp.json() if resp.text else {}; except: {"raw": resp.text}
JsonOrRaw(body) ==
  IF body.kind = "empty" THEN EmptyDict
  ELSE IF body.kind = "json" THEN body.value
  ELSE RawDict(body.text)

\* ops.main._http_requests
_http_requests(resp) ==
  IF resp.net THEN Result(FALSE, None, NoPayload, "exc")
  ELSE LET ok == 200 <= resp.status /\ resp.status < 300
       IN  Result(ok, resp.status, JsonOrRaw(resp.body), IF ok THEN "" ELSE "HTTP")

\* ops.main._http_urllib: urlopen raises HTTPError for a final status outside
\* 2xx; json.loads raising inside the `with` ends in `except Exception`.
_http_urllib(resp) ==
  IF resp.net THEN Result(FALSE, None, NoPayload, "exc")
  ELSE IF 200 <= resp.status /\ resp.status < 300
    THEN IF resp.body.kind \in {"empty", "blank"} THEN Result(TRUE, resp.status, EmptyDict, "")
         ELSE IF resp.body.kind = "json" THEN Result(TRUE, resp.status, resp.body.value, "")
         ELSE Result(FALSE, None, NoPayload, "exc")
    ELSE Result(FALSE, resp.status,
                IF resp.body.kind \in {"empty", "blank"} THEN EmptyDict
                ELSE IF resp.body.kind = "json" THEN resp.body.value
                ELSE RawDict(resp.body.text),
                "HTTP")

Libraries == {"requests", "urllib"}

\* ops.main.http_json: requests if it is installed, else urllib.
http_json(resp, lib) == IF lib = "requests" THEN _http_requests(resp) ELSE _http_urllib(resp)

\* opsctl.call_json
call_json(resp, lib) ==
  IF lib = "requests"
    THEN IF resp.net THEN Result(FALSE, None, NoPayload, "exc")
         ELSE IF resp.status >= 400 THEN Result(FALSE, resp.status, JsonOrRaw(resp.body), "HTTP")
         ELSE Result(TRUE, resp.status, JsonOrRaw(resp.body), "")
    ELSE _http_urllib(resp)

\* ops.checks._safe_json and _request_json
_safe_json(body) == IF body.kind = "json" THEN <<TRUE, body.value>> ELSE <<FALSE, Text(body.text)>>

_request_json(resp) ==
  IF resp.net THEN Result(FALSE, None, NoPayload, "exc")
  ELSE LET parsed == _safe_json(resp.body)
       IN  IF ~parsed[1] THEN Result(FALSE, resp.status, parsed[2], "response was not valid JSON")
           ELSE IF resp.status >= 400 THEN Result(FALSE, resp.status, parsed[2], "HTTP")
           ELSE Result(TRUE, resp.status, parsed[2], "")

\* ops_cli.request_json
request_json(resp) ==
  IF resp.net THEN Result(FALSE, None, NoPayload, "exc")
  ELSE IF resp.status >= 400 THEN Result(FALSE, resp.status, JsonOrRaw(resp.body), "HTTP")
  ELSE Result(TRUE, resp.status, JsonOrRaw(resp.body), "")

\* ------------------------------------------------------------ health checks
HEALTH_OK_STATES == {"healthy", "ok", "running"}

\* ops.main._status_text
_status_text(payload) ==
  IF ~IsDict(payload) THEN ""
  ELSE IF Get(payload, "status") = Null THEN ""
  ELSE Lower(StrStrip(Get(payload, "status").v))

\* ops.main.health_once
health_once(result) ==
  IF ~result.ok THEN FALSE
  ELSE LET state == _status_text(result.payload)
       IN  ~(state # "" /\ state \notin HEALTH_OK_STATES)

\* opsctl.health_ok; ops_cli.health_once has the same body.
health_ok(result) ==
  IF ~result.ok THEN FALSE
  ELSE IF IsDict(result.payload)
    THEN LET state == Lower(StrStrip(GetOrEmpty(result.payload, "status").v))
         IN  ~(state # "" /\ state \notin HEALTH_OK_STATES)
    ELSE TRUE

\* ------------------------------------------------------------------ job ids
RECURSIVE FirstId(_, _)
FirstId(payload, keys) ==
  IF keys = <<>> THEN Null
  ELSE LET value == Get(payload, Head(keys))
       IN  IF value = Null THEN FirstId(payload, Tail(keys))
           ELSE IF StrStrip(value.v) # "" THEN Str(StrStrip(value.v))
           ELSE FirstId(payload, Tail(keys))

\* ops.main._extract_job_id; ops_cli._extract_job_id and
\* ops_smoke.extract_job_id have the same body.
_extract_job_id(payload) ==
  IF ~IsDict(payload) THEN Null ELSE FirstId(payload, <<"id", "job_id", "jobId">>)

\* ops.checks._extract_job_id
checks_extract_job_id(payload) ==
  IF ~IsDict(payload) THEN Null ELSE FirstId(payload, <<"job_id", "id", "jobId">>)

\* ----------------------------------------------------- one HTTP exchange
\* The supervision side at rest: no invocation, no process, no record.
AtRest ==
  /\ tool = "ops.main" /\ alive = {} /\ command = [p \in PIDS |-> NoCommand]
  /\ listening = {} /\ denied = {} /\ lsof_ok = TRUE
  /\ BACKEND_PID_FILE = NoFile /\ ORCHESTRATOR_PID_FILE = NoFile
  /\ ORCHESTRATOR_HEARTBEAT_FILE = FALSE /\ OPSCTL_PID_FILE = NoFile /\ CLI_PID_FILE = NoFile
  /\ pc = "idle" /\ args = NoArgs /\ loc = NoLoc /\ term = TermOff
  /\ sent = {} /\ logged = {} /\ spawned = {} /\ rc = EXIT_OK /\ quiet = FALSE
  /\ ups = UpsOff

\* One exchange: the server's answer and the HTTP library at hand are given;
\* a client turns the answer into its result, then the caller of that client
\* judges health or extracts the job id.
InitProbe ==
  /\ AtRest
  /\ \E resp \in Responses, lib \in Libraries :
       probe = [pc |-> "ready", response |-> resp, lib |-> lib, client |-> "",
                result |-> NoResult, healthy |-> FALSE, job_id |-> Null]
  /\ wait = WaitOff
  /\ run = RunOff

Answered(client, result) ==
  /\ probe.pc = "ready"
  /\ probe' = [probe EXCEPT !.pc = "answered", !.client = client, !.result = result]
  /\ UNCHANGED <<supervision, wait, run>>

HttpJsonReturns == Answered("ops.main", http_json(probe.response, probe.lib))

CallJsonReturns == Answered("opsctl", call_json(probe.response, probe.lib))

\* ops.checks and ops_cli need the requests library.
RequestJsonReturns == probe.lib = "requests" /\ Answered("ops.checks", _request_json(probe.response))

CliRequestJsonReturns == probe.lib = "requests" /\ Answered("ops_cli", request_json(probe.response))

\* ops_smoke.http_json has the body of ops.main.http_json.
SmokeHttpJsonReturns == Answered("ops_smoke", http_json(probe.response, probe.lib))

Judged(client, healthy) ==
  /\ probe.pc = "answered" /\ probe.client = client
  /\ probe' = [probe EXCEPT !.pc = "judged", !.healthy = healthy]
  /\ UNCHANGED <<supervision, wait, run>>

HealthOnceReturns == Judged("ops.main", health_once(probe.result))

HealthOkReturns == Judged("opsctl", health_ok(probe.result))

\* ops_cli.health_once has the body of opsctl.health_ok.
CliHealthOnceReturns == Judged("ops_cli", health_ok(probe.result))

\* ops.checks.run_checks A): health_ok = ok and isinstance(payload, dict)
checks_health_ok(result) == result.ok /\ IsDict(result.payload)

ChecksHealthReturns == Judged("ops.checks", checks_health_ok(probe.result))

Extracted(client, job_id) ==
  /\ probe.pc = "answered" /\ probe.client = client
  /\ probe' = [probe EXCEPT !.pc = "extracted", !.job_id = job_id]
  /\ UNCHANGED <<supervision, wait, run>>

ExtractJobIdReturns == Extracted("ops.main", _extract_job_id(probe.result.payload))

ChecksExtractJobIdReturns == Extracted("ops.checks", checks_extract_job_id(probe.result.payload))

\* ops_cli._extract_job_id and ops_smoke.extract_job_id have the body of
\* ops.main._extract_job_id.
CliExtractJobIdReturns == Extracted("ops_cli", _extract_job_id(probe.result.payload))

SmokeExtractJobIdReturns == Extracted("ops_smoke", _extract_job_id(probe.result.payload))

NextProbe ==
  \/ HttpJsonReturns
  \/ CallJsonReturns
  \/ RequestJsonReturns
  \/ CliRequestJsonReturns
  \/ SmokeHttpJsonReturns
  \/ HealthOnceReturns
  \/ HealthOkReturns
  \/ CliHealthOnceReturns
  \/ ChecksHealthReturns
  \/ ExtractJobIdReturns
  \/ ChecksExtractJobIdReturns
  \/ CliExtractJobIdReturns
  \/ SmokeExtractJobIdReturns

SpecProbe == InitProbe /\ [][NextProbe]_vars

\* ------------------------------------------------------------ wait_healthy
\* The clock counts ticks of 0.2 s; Ticks converts tenths of a second.
Ticks(tenths) == tenths \div 2

Max(a, b) == IF a >= b THEN a ELSE b

\* The (ok, detail) pair of ops.main.health_once.
health_once_detail(result) ==
  IF ~result.ok THEN (IF result.error # "" THEN result.error ELSE "health request failed")
  ELSE IF ~health_once(result) THEN "unexpected health status"
  ELSE "healthy"

\* What /health answers while a backend comes up.
HealthAnswers ==
  { NetworkError,
    [net |-> FALSE, status |-> 500, body |-> EmptyBody],
    [net |-> FALSE, status |-> 200, body |-> JsonBody([EmptyDict EXCEPT !.status = Str("degraded")])],
    [net |-> FALSE, status |-> 200, body |-> JsonBody([EmptyDict EXCEPT !.status = Str("ok")])],
    [net |-> FALSE, status |-> 200, body |-> JsonBody(EmptyDict)] }

NoWaitResult == [ok |-> FALSE, elapsed |-> 0, detail |-> ""]

InitWait ==
  /\ AtRest
  /\ probe = ProbeOff
  /\ \E timeout_seconds \in 0..MaxTimeout, lib \in Libraries :
       wait = [pc |-> "ready", timeout_seconds |-> timeout_seconds, lib |-> lib, now |-> 0,
               started |-> 0, deadline |-> 0, last |-> "", probes |-> <<>>,
               result |-> NoWaitResult]
  /\ run = RunOff

\* started = time.time(); deadline = started + max(1, timeout_seconds); last = ""
WaitCalled ==
  /\ wait.pc = "ready"
  /\ wait' = [wait EXCEPT !.pc = "loop", !.started = wait.now,
                          !.deadline = wait.now + Ticks(10) * Max(1, wait.timeout_seconds),
                          !.last = ""]
  /\ UNCHANGED <<supervision, probe, run>>

\* One turn of the loop with a healthy probe: return True.
WaitLoopHealthy ==
  /\ wait.pc = "loop"
  /\ wait.now < wait.deadline
  /\ \E resp \in HealthAnswers, took \in 0..MaxProbeTicks :
       LET result == http_json(resp, wait.lib)
           at == wait.now + took
       IN  /\ health_once(result)
           /\ wait' = [wait EXCEPT !.pc = "returned", !.now = at,
                         !.probes = Append(@, [begun |-> wait.now, ok |-> TRUE,
                                               detail |-> health_once_detail(result)]),
                         !.result = [ok |-> TRUE, elapsed |-> at - wait.started,
                                     detail |-> health_once_detail(result)]]
  /\ UNCHANGED <<supervision, probe, run>>

\* One turn of the loop with a failed probe: keep the detail, sleep 0.8 s.
WaitLoopFailedForgetsDetail ==
  /\ wait.pc = "loop"
  /\ wait.now < wait.deadline
  /\ \E resp \in HealthAnswers, took \in 0..MaxProbeTicks :
       LET result == http_json(resp, wait.lib)
       IN  /\ ~health_once(result)
           /\ wait' = [wait EXCEPT !.now = wait.now + took + Ticks(8),
                         !.probes = Append(@, [begun |-> wait.now, ok |-> FALSE,
                                               detail |-> health_once_detail(result)])]
  /\ UNCHANGED <<supervision, probe, run>>

WaitLoopFailed ==
  /\ wait.pc = "loop"
  /\ wait.now < wait.deadline
  /\ \E resp \in HealthAnswers, took \in 0..MaxProbeTicks :
       LET result == http_json(resp, wait.lib)
       IN  /\ ~health_once(result)
           /\ wait' = [wait EXCEPT !.now = wait.now + took + Ticks(8),
                         !.last = health_once_detail(result),
                         !.probes = Append(@, [begun |-> wait.now, ok |-> FALSE,
                                               detail |-> health_once_detail(result)])]
  /\ UNCHANGED <<supervision, probe, run>>

\* The loop condition fails: return False, last or "timeout".
WaitDeadlinePassed ==
  /\ wait.pc = "loop"
  /\ ~(wait.now < wait.deadline)
  /\ wait' = [wait EXCEPT !.pc = "returned",
                !.result = [ok |-> FALSE, elapsed |-> wait.now - wait.started,
                            detail |-> IF wait.last # "" THEN wait.last ELSE "timeout"]]
  /\ UNCHANGED <<supervision, probe, run>>

NextWait ==
  \/ WaitCalled
  \/ WaitLoopHealthy
  \/ WaitLoopFailed
  \/ WaitDeadlinePassed

SpecWait == InitWait /\ [][NextWait]_vars

\* ------------------------------------------------- doctor and smoke-dl runs
JOB_SUCCESS_STATES == {"completed", "success"}
JOB_FAILURE_STATES == {"failed", "error", "cancelled"}

TorchMissing == "No module named 'torch'"
TorchMissingUpper == "NO MODULE NAMED TORCH"

\* ops.checks._extract_job_status
_extract_job_status(payload) == _status_text(payload)

\* _extract_job_error: the first non-empty of error, detail, message, reason
\* (the answers here carry the error key only).
_extract_job_error(payload) ==
  IF ~IsDict(payload) THEN ""
  ELSE IF payload.error.t \in {"str", "num"} /\ payload.error.v # "" THEN payload.error.v
  ELSE ""

\* A search for the pattern that minds the case.
ContainsTorchMissingCased(error_text) ==
  error_text \in {"no module named torch", "no module named 'torch'"}

\* ops.checks._contains_torch_missing: re.search of
\* no module named ['"]?torch['"]? with re.IGNORECASE.
_contains_torch_missing(error_text) ==
  Lower(error_text) \in {"no module named torch", "no module named 'torch'"}

Answer(status, body) == [net |-> FALSE, status |-> status, body |-> body]

\* What a status endpoint answers.
StatusAnswers ==
  {NetworkError, Answer(500, JsonBody(EmptyDict)), Answer(200, JsonBody(JsonList)),
   Answer(200, TextBody), Answer(200, JsonBody(EmptyDict))}

\* What the enqueue endpoint answers.
EnqueueAnswers ==
  {NetworkError, Answer(200, TextBody), Answer(200, JsonBody(JsonList)),
   Answer(200, JsonBody(EmptyDict)),
   Answer(200, JsonBody([EmptyDict EXCEPT !.id = Str("  "), !.job_id = Null])),
   Answer(200, JsonBody([EmptyDict EXCEPT !.job_id = Str(" b ")])),
   Answer(200, JsonBody([EmptyDict EXCEPT !.id = Str("a"), !.job_id = Str(" b ")])),
   Answer(200, JsonBody([EmptyDict EXCEPT !.jobId = Number])),
   Answer(304, JsonBody([EmptyDict EXCEPT !.id = Str("a")])),
   Answer(500, JsonBody([EmptyDict EXCEPT !.id = Str("a")]))}

\* What the job endpoint answers to a poll.
PollStatuses ==
  {Absent, Null, Str("RUNNING"), Str("success"), Str(" SUCCESS "), Str("Completed"),
   Str("failed"), Str("FAILED"), Str("error"), Str("cancelled"), Str("timeout")}

PollAnswers ==
  {NetworkError, Answer(500, EmptyBody), Answer(200, TextBody), Answer(200, JsonBody(JsonList))}
    \cup {Answer(200, JsonBody([EmptyDict EXCEPT !.status = st])) : st \in PollStatuses}
    \cup {Answer(200, JsonBody([EmptyDict EXCEPT !.status = Str("failed"), !.error = e])) :
            e \in {Str(TorchMissing), Str(TorchMissingUpper), Str("out of memory")}}
    \cup {Answer(200, JsonBody([EmptyDict EXCEPT !.status = Str("error"), !.error = Str(TorchMissing)])),
          Answer(200, JsonBody([EmptyDict EXCEPT !.status = Str("Success"), !.model_path = Str("/m")])),
          Answer(200, JsonBody([EmptyDict EXCEPT !.status = Str("Success"), !.artifact_path = Str("/a")])),
          Answer(200, JsonBody([EmptyDict EXCEPT !.status = Str("RUNNING"), !.model_path = Str("/old")]))}

\* What a poll shows of the job, read off the answer itself: "!error" for a
\* network failure, an error status, a body that is no JSON or no JSON object,
\* else the status text trimmed and lower-cased ("" when there is none).
Observe(resp) ==
  IF resp.net \/ resp.status < 200 \/ resp.status >= 300 THEN "!error"
  ELSE IF resp.body.kind # "json" \/ ~IsDict(resp.body.value) THEN "!error"
  ELSE IF resp.body.value.status \in {Absent, Null} THEN ""
  ELSE Lower(StrStrip(resp.body.value.status.v))

Runners == {"doctor", "smoke-dl", "opsctl", "ops_smoke"}

\* A run: its inputs, its clock (seconds), the requests it has issued, the
\* DoctorContext of run_checks (checks, classifications, job_error) and the
\* locals of both runners.
InitRun ==
  /\ AtRest
  /\ probe = ProbeOff
  /\ wait = WaitOff
  /\ \E runner \in Runners, lib \in Libraries, timeout \in 0..MaxJobTimeout :
       /\ runner = "doctor" => lib = "requests"
       /\ runner = "ops_smoke" => timeout = MaxJobTimeout
       /\ run = [pc |-> "ready", runner |-> runner, lib |-> lib, timeout |-> timeout,
                 now |-> 0, deadline |-> 0, requests |-> <<>>, enqueue |-> NoResult,
                 job_id |-> Null, checks |-> <<>>, classifications |-> {},
                 final_status |-> "", job_error |-> "", poll_count |-> 0,
                 last_payload |-> NoPayload, last_error |-> "", last_status |-> "",
                 model_path |-> "", observed |-> <<>>, summary_ok |-> FALSE, rc |-> None]

Issue(request) == Append(run.requests, request)

\* str(value or "")
Truthy(value) == IF value.t \in {"str", "num"} THEN value.v ELSE ""

Check(name, ok) == Append(run.checks, [name |-> name, ok |-> ok])

RunBegin ==
  /\ run.pc = "ready"
  /\ run' = [run EXCEPT !.pc = CASE run.runner = "doctor" -> "A"
                                  [] run.runner = "smoke-dl" -> "wait"
                                  [] run.runner = "opsctl" -> "opsctl_checks"
                                  [] OTHER -> "ops_smoke_wait"]
  /\ UNCHANGED <<supervision, probe, wait>>

\* A failed health check that is classified and lets the run go on.
DoctorHealthGoesOn ==
  /\ run.pc = "A"
  /\ \E resp \in StatusAnswers :
       LET result == _request_json(resp)
           health_ok_ == result.ok /\ IsDict(result.payload)
       IN  run' = [run EXCEPT !.pc = "B", !.requests = Issue("health"),
                              !.checks = Check("A_HEALTH", health_ok_),
                              !.classifications =
                                IF health_ok_ THEN @ ELSE @ \cup {"BACKEND_DOWN"}]
  /\ UNCHANGED <<supervision, probe, wait>>

\* run_checks A) GET /health
DoctorHealth ==
  /\ run.pc = "A"
  /\ \E resp \in StatusAnswers :
       LET result == _request_json(resp)
           health_ok_ == result.ok /\ IsDict(result.payload)
       IN  run' = IF health_ok_
                    THEN [run EXCEPT !.pc = "B", !.requests = Issue("health"),
                                     !.checks = Check("A_HEALTH", TRUE)]
                    ELSE [run EXCEPT !.pc = "exit", !.requests = Issue("health"),
                                     !.checks = Check("A_HEALTH", FALSE),
                                     !.classifications = @ \cup {"BACKEND_DOWN"},
                                     !.final_status = "not_started",
                                     !.summary_ok = FALSE]
  /\ UNCHANGED <<supervision, probe, wait>>

\* A failed status check that ends the run.
DoctorApiStatusStops ==
  /\ run.pc = "B"
  /\ \E resp \in StatusAnswers :
       LET result == _request_json(resp)
           status_ok == result.ok /\ IsDict(result.payload)
       IN  run' = IF status_ok
                    THEN [run EXCEPT !.pc = "C", !.requests = Issue("status"),
                                     !.checks = Check("B_API_STATUS", TRUE)]
                    ELSE [run EXCEPT !.pc = "exit", !.requests = Issue("status"),
                                     !.checks = Check("B_API_STATUS", FALSE),
                                     !.classifications = @ \cup {"API_CONTRACT_INCONSISTENT"},
                                     !.final_status = "not_started"]
  /\ UNCHANGED <<supervision, probe, wait>>

\* run_checks B) GET /api/status
DoctorApiStatus ==
  /\ run.pc = "B"
  /\ \E resp \in StatusAnswers :
       LET result == _request_json(resp)
           status_ok == result.ok /\ IsDict(result.payload)
       IN  run' = [run EXCEPT !.pc = "C", !.requests = Issue("status"),
                              !.checks = Check("B_API_STATUS", status_ok),
                              !.classifications =
                                IF status_ok THEN @ ELSE @ \cup {"API_CONTRACT_INCONSISTENT"}]
  /\ UNCHANGED <<supervision, probe, wait>>

\* A failed deep-learning status check that is recorded and not classified.
DoctorDlStatusUnclassified ==
  /\ run.pc = "C"
  /\ \E resp \in StatusAnswers :
       LET result == _request_json(resp)
           dl_status_ok == result.ok /\ IsDict(result.payload)
       IN  run' = [run EXCEPT !.pc = "D", !.requests = Issue("dl_status"),
                              !.checks = Check("C_DL_STATUS", dl_status_ok)]
  /\ UNCHANGED <<supervision, probe, wait>>

\* run_checks C) GET /api/deep-learning/status
DoctorDlStatus ==
  /\ run.pc = "C"
  /\ \E resp \in StatusAnswers :
       LET result == _request_json(resp)
           dl_status_ok == result.ok /\ IsDict(result.payload)
       IN  run' = [run EXCEPT !.pc = "D", !.requests = Issue("dl_status"),
                              !.checks = Check("C_DL_STATUS", dl_status_ok),
                              !.classifications =
                                IF dl_status_ok THEN @ ELSE @ \cup {"API_CONTRACT_INCONSISTENT"}]
  /\ UNCHANGED <<supervision, probe, wait>>

\* A failed enqueue that polls the job all the same.
DoctorEnqueuePollsAnyway ==
  /\ run.pc = "D"
  /\ \E resp \in EnqueueAnswers :
       LET result == _request_json(resp)
           job_start_ok == result.ok /\ IsDict(result.payload)
           job_id == checks_extract_job_id(IF IsDict(result.payload) THEN result.payload ELSE NoPayload)
       IN  run' = [run EXCEPT !.pc = "poll", !.requests = Issue("enqueue"),
                              !.enqueue = result, !.job_id = job_id,
                              !.checks = Check("D_START_DL_JOB", job_start_ok /\ job_id # Null),
                              !.deadline = run.now + run.timeout,
                              !.final_status = "running", !.poll_count = 0]
  /\ UNCHANGED <<supervision, probe, wait>>

\* run_checks D) POST /api/jobs/deep-learning/train
DoctorEnqueue ==
  /\ run.pc = "D"
  /\ \E resp \in EnqueueAnswers :
       LET result == _request_json(resp)
           job_start_ok == result.ok /\ IsDict(result.payload)
           job_id == checks_extract_job_id(IF IsDict(result.payload) THEN result.payload ELSE NoPayload)
       IN  run' = IF ~job_start_ok \/ job_id = Null
                    THEN [run EXCEPT !.pc = "exit", !.requests = Issue("enqueue"),
                                     !.enqueue = result, !.job_id = job_id,
                                     !.checks = Check("D_START_DL_JOB", FALSE),
                                     !.classifications = @ \cup {"API_CONTRACT_INCONSISTENT"},
                                     !.final_status = "start_failed",
                                     !.summary_ok = FALSE]
                    ELSE [run EXCEPT !.pc = "poll", !.requests = Issue("enqueue"),
                                     !.enqueue = result, !.job_id = job_id,
                                     !.checks = Check("D_START_DL_JOB", TRUE),
                                     !.deadline = run.now + run.timeout,
                                     !.final_status = "running", !.poll_count = 0]
  /\ UNCHANGED <<supervision, probe, wait>>

\* One turn of the polling loop of run_checks (poll_seconds = 2).
DoctorPoll ==
  /\ run.pc = "poll" /\ run.runner = "doctor"
  /\ run.now < run.deadline
  /\ \E resp \in PollAnswers, took \in 0..MaxPollSeconds :
       LET result == _request_json(resp)
           status_text == _extract_job_status(result.payload)
           check_ok == result.ok /\ IsDict(result.payload)
           polled == [run EXCEPT !.requests = Issue("poll"), !.poll_count = @ + 1,
                                 !.observed = Append(@, Observe(resp)),
                                 !.last_payload = result.payload,
                                 !.checks = Check("D_POLL_DL_JOB", check_ok),
                                 !.now = run.now + took]
       IN  run' = IF ~check_ok
                    THEN [polled EXCEPT !.pc = "report",
                                        !.classifications = @ \cup {"API_CONTRACT_INCONSISTENT"},
                                        !.final_status = "failed",
                                        !.job_error = IF result.error # "" THEN result.error
                                                      ELSE "job poll failed"]
                  ELSE IF status_text = "success"
                    THEN [polled EXCEPT !.pc = "report", !.final_status = "success"]
                  ELSE IF status_text = "failed"
                    THEN [polled EXCEPT !.pc = "report", !.final_status = "failed",
                                        !.job_error = _extract_job_error(result.payload)]
                  ELSE [polled EXCEPT !.now = @ + Max(1, 2)]
  /\ UNCHANGED <<supervision, probe, wait>>

\* The loop condition of run_checks fails.
DoctorPollDeadline ==
  /\ run.pc = "poll" /\ run.runner = "doctor"
  /\ ~(run.now < run.deadline)
  /\ run' = [run EXCEPT !.pc = "report"]
  /\ UNCHANGED <<supervision, probe, wait>>

\* A timed-out job enqueued once more.
DoctorReportRetries ==
  /\ run.pc = "report"
  /\ run' = IF run.final_status \notin {"success", "failed"}
              THEN [run EXCEPT !.pc = "D"]
              ELSE [run EXCEPT !.pc = "exit",
                               !.summary_ok = (run.final_status = "success" /\ run.classifications = {})]
  /\ UNCHANGED <<supervision, probe, wait>>

\* run_checks after the loop: timeout, MISSING_TORCH, the summary.
DoctorReport ==
  /\ run.pc = "report"
  /\ LET final_status == IF run.final_status \notin {"success", "failed"} THEN "timeout"
                         ELSE run.final_status
         classifications ==
           run.classifications
             \cup (IF final_status = "timeout" THEN {"DL_JOB_TIMEOUT"} ELSE {})
             \cup (IF final_status = "failed" /\ _contains_torch_missing(run.job_error)
                     THEN {"MISSING_TORCH"} ELSE {})
     IN  run' = [run EXCEPT !.pc = "exit", !.final_status = final_status,
                            !.classifications = classifications,
                            !.summary_ok = (final_status = "success" /\ classifications = {})]
  /\ UNCHANGED <<supervision, probe, wait>>

\* An exit status taken from the job alone.
DoctorExitByJobStatus ==
  /\ run.pc = "exit" /\ run.runner = "doctor"
  /\ run' = [run EXCEPT !.pc = "done", !.rc = IF run.final_status = "success" THEN 0 ELSE 1]
  /\ UNCHANGED <<supervision, probe, wait>>

\* ops.doctor.run: tickets, the report files, the exit status.
DoctorExit ==
  /\ run.pc = "exit" /\ run.runner = "doctor"
  /\ run' = [run EXCEPT !.pc = "done", !.rc = IF run.summary_ok THEN 0 ELSE 1]
  /\ UNCHANGED <<supervision, probe, wait>>

\* cmd_smoke_dl: wait_healthy, whose result is given.
SmokeWaitHealthy ==
  /\ run.pc = "wait"
  /\ \E ok \in BOOLEAN :
       run' = IF ok THEN [run EXCEPT !.pc = "device", !.requests = Issue("health")]
              ELSE [run EXCEPT !.pc = "done", !.requests = Issue("health"),
                               !.final_status = "not_started", !.rc = EXIT_FAIL]
  /\ UNCHANGED <<supervision, probe, wait>>

\* cmd_smoke_dl: _get_device_info, used for printing only.
SmokeDeviceInfo ==
  /\ run.pc = "device"
  /\ run' = [run EXCEPT !.pc = "enqueue", !.requests = Issue("dl_status")]
  /\ UNCHANGED <<supervision, probe, wait>>

\* cmd_smoke_dl: the enqueue POST and the job id.
SmokeEnqueue ==
  /\ run.pc = "enqueue"
  /\ \E resp \in EnqueueAnswers :
       LET enqueue == http_json(resp, run.lib)
           job_id == _extract_job_id(enqueue.payload)
       IN  run' = IF ~enqueue.ok
                    THEN [run EXCEPT !.pc = "done", !.requests = Issue("enqueue"),
                                     !.enqueue = enqueue, !.final_status = "start_failed",
                                     !.rc = EXIT_FAIL]
                  ELSE IF job_id = Null
                    THEN [run EXCEPT !.pc = "done", !.requests = Issue("enqueue"),
                                     !.enqueue = enqueue, !.final_status = "start_failed",
                                     !.rc = EXIT_FAIL]
                  ELSE [run EXCEPT !.pc = "poll", !.requests = Issue("enqueue"),
                                   !.enqueue = enqueue, !.job_id = job_id,
                                   !.deadline = run.now + Max(5, run.timeout),
                                   !.final_status = "running",
                                   !.last_payload = EmptyDict, !.last_error = "",
                                   !.last_status = ""]
  /\ UNCHANGED <<supervision, probe, wait>>

\* One turn of the polling loop of cmd_smoke_dl.
SmokePoll ==
  /\ run.pc = "poll" /\ run.runner = "smoke-dl"
  /\ run.now < run.deadline
  /\ \E resp \in PollAnswers, took \in 0..MaxPollSeconds :
       LET poll == http_json(resp, run.lib)
           state == _status_text(poll.payload)
           polled == [run EXCEPT !.requests = Issue("poll"), !.poll_count = @ + 1,
                                 !.observed = Append(@, Observe(resp)),
                                 !.now = run.now + took]
           seen == [polled EXCEPT !.last_payload = poll.payload, !.last_status = state]
       IN  run' = IF ~poll.ok
                    THEN [polled EXCEPT !.last_error = poll.error, !.now = @ + 2]
                  ELSE IF ~IsDict(poll.payload)
                    THEN [polled EXCEPT !.last_error = "job poll payload is not JSON object",
                                        !.now = @ + 2]
                  ELSE IF state \in JOB_SUCCESS_STATES
                    THEN [seen EXCEPT !.pc = "verify", !.model_path = Truthy(poll.payload.model_path)]
                  ELSE IF state \in JOB_FAILURE_STATES
                    THEN [seen EXCEPT !.pc = "done", !.final_status = "failed",
                                      !.job_error = IF _extract_job_error(poll.payload) # ""
                                                    THEN _extract_job_error(poll.payload)
                                                    ELSE "job failed",
                                      !.rc = EXIT_FAIL]
                  ELSE [seen EXCEPT !.now = @ + 2]
  /\ UNCHANGED <<supervision, probe, wait>>

\* The loop condition of cmd_smoke_dl fails.
SmokePollDeadline ==
  /\ run.pc = "poll" /\ run.runner = "smoke-dl"
  /\ ~(run.now < run.deadline)
  /\ run' = [run EXCEPT !.pc = "done", !.final_status = "timeout", !.rc = EXIT_FAIL]
  /\ UNCHANGED <<supervision, probe, wait>>

\* cmd_smoke_dl after a completed job: _verify_analysis_after_dl reads the
\* analysis endpoints; its verdict is given.
SmokeVerify ==
  /\ run.pc = "verify"
  /\ \E verify_ok \in BOOLEAN :
       run' = [run EXCEPT !.pc = "done", !.requests = Issue("analysis"),
                          !.final_status = IF verify_ok THEN "success" ELSE "verify_failed",
                          !.rc = IF verify_ok THEN EXIT_OK ELSE EXIT_FAIL]
  /\ UNCHANGED <<supervision, probe, wait>>

run_checks ==
  \/ DoctorHealth
  \/ DoctorApiStatus
  \/ DoctorDlStatus
  \/ DoctorEnqueue
  \/ DoctorPoll
  \/ DoctorPollDeadline
  \/ DoctorReport

cmd_smoke_dl ==
  \/ SmokeWaitHealthy
  \/ SmokeDeviceInfo
  \/ SmokeEnqueue
  \/ SmokePoll
  \/ SmokePollDeadline
  \/ SmokeVerify

\* ------------------------------------------ opsctl smoke and ops_smoke.py
\* The polling loop body shared by opsctl.command_smoke and ops_smoke.main
\* (ops_cli.cmd_smoke has it too): a transport error and a non-object payload
\* keep polling, completed or success ends as "completed", failed as "failed".
SmokeLoopTurn(resp, poll, took, transport_text, not_dict_text) ==
  LET polled == [run EXCEPT !.requests = Issue("poll"), !.poll_count = @ + 1,
                            !.observed = Append(@, Observe(resp)),
                            !.now = run.now + took]
      state == Lower(StrStrip(GetOrEmpty(poll.payload, "status").v))
      seen == [polled EXCEPT !.last_payload = poll.payload, !.last_status = state,
                             !.model_path =
                               IF Truthy(poll.payload.model_path) # ""
                                 THEN Truthy(poll.payload.model_path)
                                 ELSE Truthy(poll.payload.artifact_path)]
  IN  IF ~poll.ok
        THEN [polled EXCEPT !.job_error = IF poll.error # "" THEN poll.error ELSE transport_text,
                            !.now = @ + 2]
      ELSE IF ~IsDict(poll.payload)
        THEN [polled EXCEPT !.job_error = not_dict_text, !.now = @ + 2]
      ELSE IF state \in {"completed", "success"}
        THEN [seen EXCEPT !.pc = "summary", !.final_status = "completed"]
      ELSE IF state = "failed"
        THEN [seen EXCEPT !.pc = "summary", !.final_status = "failed",
                          !.job_error = Truthy(poll.payload.error)]
      ELSE [seen EXCEPT !.now = @ + 2]

\* opsctl.command_smoke: wait_healthy (its result is given), GET /api/status,
\* GET /api/universe/list (a warning only), the --no-dl-job flag.
OpsctlSmokeChecks ==
  /\ run.pc = "opsctl_checks"
  /\ \E healthy \in BOOLEAN, resp \in StatusAnswers, no_dl_job \in BOOLEAN :
       run' = IF ~healthy
                THEN [run EXCEPT !.pc = "done", !.requests = Issue("health"),
                                 !.final_status = "not_started", !.rc = 1]
              ELSE IF ~call_json(resp, run.lib).ok
                THEN [run EXCEPT !.pc = "done", !.requests = @ \o <<"health", "status">>,
                                 !.final_status = "not_started", !.rc = 1]
              ELSE IF no_dl_job
                THEN [run EXCEPT !.pc = "done",
                                 !.requests = @ \o <<"health", "status", "universe">>,
                                 !.final_status = "not_started", !.rc = 0]
              ELSE [run EXCEPT !.pc = "opsctl_enqueue",
                               !.requests = @ \o <<"health", "status", "universe">>]
  /\ UNCHANGED <<supervision, probe, wait>>

\* The job id of opsctl.command_smoke: the first alias whose value is truthy.
RECURSIVE FirstTruthy(_, _)
FirstTruthy(payload, keys) ==
  IF keys = <<>> THEN Null
  ELSE IF Truthy(payload[Head(keys)]) # "" THEN Str(Truthy(payload[Head(keys)]))
  ELSE FirstTruthy(payload, Tail(keys))

OpsctlSmokeEnqueue ==
  /\ run.pc = "opsctl_enqueue"
  /\ \E resp \in EnqueueAnswers :
       LET enqueue == call_json(resp, run.lib)
           job_id == IF IsDict(enqueue.payload)
                       THEN FirstTruthy(enqueue.payload, <<"id", "job_id", "jobId">>)
                       ELSE Null
       IN  run' = IF ~enqueue.ok \/ job_id = Null
                    THEN [run EXCEPT !.pc = "done", !.requests = Issue("enqueue"),
                                     !.enqueue = enqueue, !.final_status = "start_failed",
                                     !.rc = 1]
                    ELSE [run EXCEPT !.pc = "poll", !.requests = Issue("enqueue"),
                                     !.enqueue = enqueue, !.job_id = job_id,
                                     !.deadline = run.now + Max(5, run.timeout),
                                     !.final_status = "timeout"]
  /\ UNCHANGED <<supervision, probe, wait>>

OpsctlSmokePoll ==
  /\ run.pc = "poll" /\ run.runner = "opsctl"
  /\ run.now < run.deadline
  /\ \E resp \in PollAnswers, took \in 0..MaxPollSeconds :
       run' = SmokeLoopTurn(resp, call_json(resp, run.lib), took, "", "unexpected payload")
  /\ UNCHANGED <<supervision, probe, wait>>

\* After the loop, by a break or by the deadline: the summary, the exit code.
OpsctlSmokeSummary ==
  /\ run.runner = "opsctl"
  /\ run.pc = "summary" \/ (run.pc = "poll" /\ ~(run.now < run.deadline))
  /\ run' = [run EXCEPT !.pc = "done", !.rc = IF run.final_status = "completed" THEN 0 ELSE 1]
  /\ UNCHANGED <<supervision, probe, wait>>

command_smoke ==
  \/ OpsctlSmokeChecks
  \/ OpsctlSmokeEnqueue
  \/ OpsctlSmokePoll
  \/ OpsctlSmokeSummary

\* ops_smoke.main: wait_healthy (its result is given), then the enqueue POST.
\* JOB_TIMEOUT_SECONDS is a setting of the script; run.timeout stands for it.
OpsSmokeEnqueue ==
  /\ run.pc = "ops_smoke_wait"
  /\ \E healthy \in BOOLEAN, resp \in EnqueueAnswers :
       LET enqueue == http_json(resp, run.lib)
           job_id == _extract_job_id(enqueue.payload)
       IN  run' = IF ~healthy
                    THEN [run EXCEPT !.pc = "done", !.requests = Issue("health"),
                                     !.final_status = "not_started", !.rc = 1]
                  ELSE IF ~enqueue.ok \/ job_id = Null
                    THEN [run EXCEPT !.pc = "done", !.requests = @ \o <<"health", "enqueue">>,
                                     !.enqueue = enqueue, !.final_status = "start_failed",
                                     !.rc = 1]
                  ELSE [run EXCEPT !.pc = "poll", !.requests = @ \o <<"health", "enqueue">>,
                                   !.enqueue = enqueue, !.job_id = job_id,
                                   !.deadline = run.now + run.timeout,
                                   !.final_status = "timeout"]
  /\ UNCHANGED <<supervision, probe, wait>>

OpsSmokePoll ==
  /\ run.pc = "poll" /\ run.runner = "ops_smoke"
  /\ run.now < run.deadline
  /\ \E resp \in PollAnswers, took \in 0..MaxPollSeconds :
       run' = SmokeLoopTurn(resp, http_json(resp, run.lib), took, "poll failed",
                            "invalid job payload")
  /\ UNCHANGED <<supervision, probe, wait>>

OpsSmokeSummary ==
  /\ run.runner = "ops_smoke"
  /\ run.pc = "summary" \/ (run.pc = "poll" /\ ~(run.now < run.deadline))
  /\ run' = [run EXCEPT !.pc = "done", !.rc = IF run.final_status = "completed" THEN 0 ELSE 1]
  /\ UNCHANGED <<supervision, probe, wait>>

ops_smoke_main ==
  \/ OpsSmokeEnqueue
  \/ OpsSmokePoll
  \/ OpsSmokeSummary

NextRun ==
  \/ RunBegin
  \/ run_checks
  \/ DoctorExit
  \/ cmd_smoke_dl
  \/ command_smoke
  \/ ops_smoke_main

SpecRun == InitRun /\ [][NextRun]_vars

\* ------------------------------------------------------ the sleep-poll loops
\* The three waits, each begun by a caller of its own: `down` stops the
\* orchestrator processes one by one with _terminate_pid (the port is free, so
\* no listener takes part), wait_healthy is called with a timeout, the doctor
\* polls its job with a timeout of up to MaxTimeout + 1 seconds, which leaves
\* room for a second poll after the first sleep.  A process is one
\* thread: a step that can be taken is taken (the clock advances, each probe
\* and each signal call returns), which is weak fairness of each machine.
InitLoops ==
  \/ Init /\ tool = "ops.main" /\ listening = {} /\ denied = {} /\ lsof_ok
  \/ InitWait
  \/ InitRun /\ run.runner = "doctor" /\ run.timeout <= MaxTimeout + 1

\* `down` begins where neither other wait is under way.
DownCalled == wait.pc = "off" /\ run.pc = "off" /\ DownBegin

\* ops.doctor.run: run_checks, then the exit status.
doctor_run ==
  \/ RunBegin
  \/ run_checks
  \/ DoctorExit

NextLoops ==
  \/ ProcessExit
  \/ DownCalled
  \/ _stop_orchestrator_processes
  \/ _terminate_pid
  \/ NextWait
  \/ doctor_run

SpecLoops ==
  /\ InitLoops /\ [][NextLoops]_vars
  /\ WF_vars(_terminate_pid) /\ WF_vars(NextWait) /\ WF_vars(doctor_run)

\* ------------------------------------------------- two `up` at the same time
\* Two invocations of `python -m ops.main up` for the same port, each its own
\* operating-system process.  Each takes the steps of cmd_up on its own state
\* (ups[i]); they share the processes, the port and the backend record, and
\* nothing orders their steps: cmd_up takes no lock.
single == <<tool, denied, lsof_ok, ORCHESTRATOR_PID_FILE, ORCHESTRATOR_HEARTBEAT_FILE,
            OPSCTL_PID_FILE, CLI_PID_FILE, pc, args, loc, term, sent, logged, spawned, rc, quiet,
            probe, wait, run>>

InitUps ==
  /\ tool = "ops.main"
  /\ alive \in SUBSET PIDS
  /\ command \in [PIDS -> {BackendCommand(tool), CmdForeign, NoCommand}]
  /\ \A p \in PIDS : (command[p] = NoCommand) <=> (p \notin alive)
  /\ listening \in SUBSET alive /\ Cardinality(listening) <= 1
  /\ denied = {}
  /\ lsof_ok \in BOOLEAN
  /\ BACKEND_PID_FILE = NoFile /\ ORCHESTRATOR_PID_FILE = NoFile
  /\ ORCHESTRATOR_HEARTBEAT_FILE = FALSE /\ OPSCTL_PID_FILE = NoFile /\ CLI_PID_FILE = NoFile
  /\ pc = "idle" /\ args = NoArgs /\ loc = NoLoc /\ term = TermOff
  /\ sent = {} /\ logged = {} /\ spawned = {} /\ rc = EXIT_OK /\ quiet = FALSE
  /\ probe = ProbeOff /\ wait = WaitOff /\ run = RunOff
  /\ \E force \in BOOLEAN :
       ups = [i \in Invocations |-> [pc |-> "health", force |-> force, pid |-> 0, rc |-> None]]

UpsReturn(i, code) == ups' = [ups EXCEPT ![i].pc = "done", ![i].rc = code]

UpsGoto(i, to) == ups' = [ups EXCEPT ![i].pc = to]

\* cmd_up: health_once; a healthy backend ends the invocation.
UpsHealth(i) ==
  /\ ups[i].pc = "health"
  /\ \/ CanBeHealthy /\ UpsReturn(i, EXIT_OK)
     \/ UpsGoto(i, "collect")
  /\ UNCHANGED <<single, alive, command, listening, BACKEND_PID_FILE>>

\* cmd_up: _collect_port_owners.
UpsCollect(i) ==
  /\ ups[i].pc = "collect"
  /\ IF inspect_error THEN UpsReturn(i, EXIT_FAIL)
     ELSE IF Len(_collect_port_owners) > 0 THEN UpsGoto(i, "stop")
     ELSE UpsGoto(i, "start")
  /\ UNCHANGED <<single, alive, command, listening, BACKEND_PID_FILE>>

\* cmd_up: _stop_backend_on_port, whose terminate calls all succeed (no pid
\* is denied and each owner dies of its signal).
UpsStop(i) ==
  /\ ups[i].pc = "stop"
  /\ LET owners == _collect_port_owners
         pids == {owners[k].pid : k \in 1..Len(owners)}
         refused == ~ups[i].force /\ \E k \in 1..Len(owners) : ~owners[k].safe_to_kill
     IN  IF inspect_error \/ refused
           THEN /\ UpsReturn(i, EXIT_FAIL)
                /\ UNCHANGED <<alive, command, listening>>
           ELSE /\ UpsGoto(i, "start")
                /\ alive' = alive \ pids
                /\ listening' = listening \ pids
                /\ command' = [p \in PIDS |-> IF p \in pids THEN NoCommand ELSE command[p]]
  /\ UNCHANGED <<single, BACKEND_PID_FILE>>

\* cmd_up: the repository or the interpreter is missing, or Popen raises.
UpsStartFails(i) ==
  /\ ups[i].pc = "start"
  /\ UpsReturn(i, EXIT_FAIL)
  /\ UNCHANGED <<single, alive, command, listening, BACKEND_PID_FILE>>

\* _start_backend: subprocess.Popen.
UpsSpawn(i) ==
  /\ ups[i].pc = "start"
  /\ \E pid \in PIDS \ alive :
       /\ alive' = alive \cup {pid}
       /\ command' = [command EXCEPT ![pid] = BackendCommand(tool)]
       /\ ups' = [ups EXCEPT ![i].pc = "write", ![i].pid = pid]
  /\ UNCHANGED <<single, listening, BACKEND_PID_FILE>>

\* _start_backend: BACKEND_PID_FILE.write_text, an error of which is ignored.
UpsWrite(i) ==
  /\ ups[i].pc = "write"
  /\ \E outcome \in WriteOutcomes :
       BACKEND_PID_FILE' = WriteText(BACKEND_PID_FILE, PidLine(ups[i].pid), outcome)
  /\ UpsGoto(i, "wait")
  /\ UNCHANGED <<single, alive, command, listening>>

\* cmd_up: wait_healthy, which any listener that answers satisfies.
UpsWait(i) ==
  /\ ups[i].pc = "wait"
  /\ \/ CanBeHealthy /\ UpsReturn(i, EXIT_OK)
     \/ UpsReturn(i, EXIT_FAIL)
  /\ UNCHANGED <<single, alive, command, listening, BACKEND_PID_FILE>>

UpsHealthStep == \E i \in Invocations : UpsHealth(i)
UpsCollectStep == \E i \in Invocations : UpsCollect(i)
UpsStopStep == \E i \in Invocations : UpsStop(i)
UpsStartFailsStep == \E i \in Invocations : UpsStartFails(i)
UpsSpawnStep == \E i \in Invocations : UpsSpawn(i)
UpsWriteStep == \E i \in Invocations : UpsWrite(i)
UpsWaitStep == \E i \in Invocations : UpsWait(i)

\* A backend that finds the port taken exits; one that finds it free binds it.
NextUps ==
  \/ UpsHealthStep
  \/ UpsCollectStep
  \/ UpsStopStep
  \/ UpsStartFailsStep
  \/ UpsSpawnStep
  \/ UpsWriteStep
  \/ UpsWaitStep
  \/ ProcessExit
  \/ BackendBinds

SpecUps == InitUps /\ [][NextUps]_vars


\* ================================================================== claims
PortSignals == {s \in sent : s.by = "port"}

PidFileSignals == {s \in sent : s.by = "pidfile"}

Has(h, e) == \E i \in 1..Len(h) : h[i] = e

\* C1: in ops.main, a port stop with force=false that finds a listener outside
\* the allowlist returns failure naming that pid and its command, and signals
\* no listener of the port, the allowlisted ones included: the kill loop runs
\* with force=false only when every owner is allowlisted.
C1_NoPartialKill ==
  tool = "ops.main" =>
    /\ loc.port_msg.kind = "refused" =>
         /\ ~loc.port_ok
         /\ ~loc.force
         /\ loc.port_msg.pid \in PIDS
         /\ ~_is_safe_backend_command(loc.port_msg.command)
         /\ PortSignals = {}
    /\ (pc \in {"port_loop", "port_wait"} /\ ~loc.force) => Unsafe(loc.owners) = {}
    /\ (PortSignals # {} /\ ~loc.force) => \A s \in PortSignals : s.safe

C1_Witness ==
  /\ tool = "ops.main"
  /\ pc = "done"
  /\ loc.port_msg.kind = "refused"
  /\ \E p \in listening : _is_safe_backend_command(command[p])
  /\ \E p \in listening : command[p] = loc.port_msg.command /\ p = loc.port_msg.pid

\* C2: in up, down and demo a process outside the allowlist (a port owner or
\* the pid of the record) is signalled only if the operator gave --force.
C2_OverrideRequired ==
  \A s \in PortSignals \cup PidFileSignals : ~s.safe => args.flag = "--force"

\* C3: _terminate_pid sends SIGTERM first, and SIGKILL only after SIGTERM was
\* sent in the same call, every liveness poll saw the process alive and the
\* grace deadline elapsed; never after a poll saw it dead.
C3_Escalation ==
  LET h == term.hist
      IsSignal(i) == h[i] \in {"SIGTERM", "SIGKILL"}
  IN  \A i \in 1..Len(h) :
        /\ h[i] = "SIGKILL" =>
             /\ \E j \in 1..(i - 1) : h[j] = "SIGTERM"
             /\ \A k \in 1..(i - 1) : h[k] \in {"alive", "SIGTERM", "elapsed"}
             /\ h[i - 1] = "elapsed"
        /\ (IsSignal(i) /\ \A j \in 1..(i - 1) : ~IsSignal(j)) => h[i] = "SIGTERM"
        /\ IsSignal(i) => [pid |-> term.pid, sig |-> h[i], by |-> term.by] \in
                            {[pid |-> s.pid, sig |-> s.sig, by |-> s.by] : s \in sent}

C3_Witness == Has(term.hist, "SIGKILL") /\ Has(term.hist, "alive")

\* C4: the result of _terminate_pid follows from when the process is seen
\* dead: at once (success, no signal), at a poll after SIGTERM (sigterm), at a
\* poll after SIGKILL (sigkill), or never (failure, still running).
C4_Result ==
  term.pc = "done" =>
    LET h == term.hist
        last == h[Len(h)]
    IN  /\ h[1] = "dead" =>
              /\ h = <<"dead">>
              /\ term.ok /\ term.mode = "not-running"
        /\ (last = "dead" /\ Has(h, "SIGTERM") /\ ~Has(h, "SIGKILL")) =>
              term.ok /\ term.mode = "sigterm"
        /\ (last = "dead" /\ Has(h, "SIGKILL")) => term.ok /\ term.mode = "sigkill"
        /\ (last = "elapsed" /\ Has(h, "SIGKILL")) =>
              ~term.ok /\ term.mode = "still-running-after-sigkill"
        /\ term.ok => last \in {"dead", "ProcessLookupError"}

C4_Witness == term.pc = "done" /\ term.mode = "sigkill" /\ term.ok

C6_SecondDownIdle ==
  (pc = "done" /\ args.command = "down" /\ args.repeat) =>
    (rc = EXIT_OK /\ sent = {} /\ BACKEND_PID_FILE = NoFile)

C8_RecordOutlivesProcess ==
  [][( /\ args.command = "down"
       /\ BACKEND_PID_FILE # NoFile
       /\ BACKEND_PID_FILE' = NoFile )
     => ( \/ _read_pid_file(BACKEND_PID_FILE) = None
          \/ ~_is_process_alive(_read_pid_file(BACKEND_PID_FILE)) )]_vars

\* C9: with the interpreter missing, start returns a failure with a message,
\* spawns nothing and leaves the pid record as it was (ops.main, opsctl and
\* ops_cli).
C9_MissingInterpreter ==
  [][( /\ pc \in {"start_backend", "opsctl_start", "cli_start"}
       /\ loc.python_bin = "None"
       /\ pc' # pc )
     => ( /\ pc' = "done"
          /\ rc' # 0
          /\ loc'.port_msg.kind = "missing-python"
          /\ alive' = alive
          /\ spawned' = spawned
          /\ files' = files )]_vars

C9_Witness ==
  /\ tool = "ops.main"
  /\ pc = "done"
  /\ loc.port_msg.kind = "missing-python"
  /\ rc = EXIT_FAIL
  /\ spawned = {}

\* C10: whenever _start_backend reports success, the backend record holds the
\* pid of the process it spawned.
C10_RecordNamesSpawned ==
  (tool = "ops.main" /\ loc.port_msg.kind = "started") =>
    _read_pid_file(BACKEND_PID_FILE) = loc.port_msg.pid

\* C11: `up` (also as the first step of demo) whose health probe succeeds
\* returns success at once: it enumerates no port owner, sends no signal,
\* spawns nothing and leaves every pid record as it is.
C11_UpOnHealthy ==
  [][( /\ pc = "up_health"
       /\ pc' \notin {"up_health", "up_collect"} )
     => ( /\ CanBeHealthy
          /\ pc' = (IF args.command = "demo" THEN "demo_smoke" ELSE "done")
          /\ args.command = "up" => rc' = EXIT_OK
          /\ sent' = sent /\ sent = {}
          /\ term' = TermOff
          /\ spawned' = spawned /\ spawned = {}
          /\ alive' = alive
          /\ files' = files
          /\ loc'.owners = <<>> )]_vars

C11_Witness ==
  /\ pc = "done"
  /\ args.command = "up"
  /\ rc = EXIT_OK
  /\ loc.port_msg.kind = ""
  /\ Cardinality({p \in alive : command[p] = BackendCommand(tool)}) = 1
  /\ BACKEND_PID_FILE # NoFile

\* C12: `up` spawns the backend (and writes the record) only from the start
\* step, reached after the port was found free or the port stop succeeded;
\* when the port stop refuses or fails, `up` exits non-zero, having spawned
\* nothing and written nothing.
C12_SpawnGate ==
  [][(tool = "ops.main" /\ args.command \in {"up", "demo"}) =>
       /\ (spawned' \ spawned # {} \/ alive' \ alive # {} \/ BACKEND_PID_FILE' # BACKEND_PID_FILE) =>
            /\ pc = "start_backend"
            /\ loc.port_ok \/ loc.port_msg.kind = ""
            /\ loc.port_msg.kind \in {"", "stopped", "no-listener"}
            /\ \A s \in sent : s.safe \/ loc.force
       /\ (pc # "done" /\ pc' = "done" /\ loc'.port_msg.kind \in {"refused", "failed"}) =>
            /\ rc' = EXIT_FAIL
            /\ spawned' = {}
            /\ BACKEND_PID_FILE' = BACKEND_PID_FILE
            /\ pc \in {"port_stop", "port_loop"}]_vars

C12_Witness ==
  /\ pc = "done"
  /\ args.command = "up"
  /\ rc = EXIT_FAIL
  /\ loc.port_msg.kind = "refused"
  /\ ~loc.force
  /\ spawned = {}

NoStatusField(payload) == ~IsDict(payload) \/ payload.status = Absent

C14_HealthRule ==
  probe.pc = "judged" =>
    (probe.healthy <=>
       /\ probe.result.ok
       /\ \/ NoStatusField(probe.result.payload)
          \/ Lower(StrStrip(probe.result.payload.status.v)) \in {"healthy", "ok", "running"})

\* ------------------------------------------------------------------- C15
\* C15: wait_healthy returns ok=true at the first healthy probe and probes no
\* more after it; it returns ok=false only when the deadline has passed, with
\* the detail of the last failed probe; it never returns ok=true without a
\* healthy probe nor ok=false before the deadline.
C15_WaitHealthy ==
  LET n == Len(wait.probes) IN
  (wait.pc \in {"loop", "returned"}) =>
    /\ \A i \in 1..n : wait.probes[i].begun < wait.deadline
    /\ \A i \in 1..n : wait.probes[i].ok => (i = n /\ wait.pc = "returned" /\ wait.result.ok)
    /\ (wait.pc = "returned" /\ wait.result.ok) =>
         /\ n >= 1 /\ wait.probes[n].ok
         /\ wait.result.detail = "healthy"
         /\ wait.result.elapsed = wait.now - wait.started
    /\ (wait.pc = "returned" /\ ~wait.result.ok) =>
         /\ wait.now >= wait.deadline
         /\ wait.result.elapsed >= Ticks(10) * Max(1, wait.timeout_seconds)
         /\ n >= 1 /\ wait.result.detail = wait.probes[n].detail

C15_Witness ==
  /\ wait.pc = "returned" /\ ~wait.result.ok
  /\ Len(wait.probes) >= 2
  /\ wait.probes[1].detail # wait.probes[Len(wait.probes)].detail
  /\ wait.result.detail = "unexpected health status"

\* ------------------------------------------------------------------- C16
\* C16: ops.main.http_json, ops.checks._request_json and opsctl.call_json
\* report success=false for every network error and for every answer whose
\* status code is not 2xx, whatever its body.
C16_Non2xxFails ==
  (probe.pc = "answered" /\ probe.client \in {"ops.main", "ops.checks", "opsctl"}) =>
    ((probe.response.net \/ probe.response.status < 200 \/ probe.response.status >= 300)
       => ~probe.result.ok)

\* ------------------------------------------------------------------- C17
\* C17: an answer whose body is a text that is no JSON gives success=false, a
\* non-empty error and the payload {"raw": text} whatever the status code, in
\* ops.main._http_requests and ops.checks._request_json; so a /health answer
\* of 200 with such a body is not judged healthy.
NonJsonAnswer == ~probe.response.net /\ probe.response.body.kind = "text"

C17_NonJsonFails ==
  /\ ( /\ probe.pc = "answered" /\ NonJsonAnswer
       /\ \/ probe.client = "ops.main" /\ probe.lib = "requests"
          \/ probe.client = "ops.checks" )
     => ( /\ ~probe.result.ok
          /\ probe.result.error # ""
          /\ probe.result.payload = RawDict(probe.response.body.text) )
  /\ (probe.pc = "judged" /\ probe.client = "ops.main" /\ NonJsonAnswer) => ~probe.healthy

\* ------------------------------------------------------------------- C18
\* C18: every job-id extractor (ops.checks, ops.main, ops_smoke) takes the
\* first alias in the order job_id, id, jobId whose value is neither missing
\* nor blank, so job_id wins over id when both carry a value.
C18_AliasOrder ==
  (probe.pc = "extracted" /\ probe.client \in {"ops.checks", "ops.main", "ops_smoke"}) =>
    probe.job_id = FirstId(probe.result.payload, <<"job_id", "id", "jobId">>)

\* ------------------------------------------------------------------- C19
\* C19: when the enqueue POST fails, or its answer is no JSON object, or it
\* carries no non-empty id under any alias, no poll is ever issued in that run
\* and the run does not succeed: the doctor ends with final_status
\* start_failed, summary ok=false and a non-zero exit, smoke-dl with a
\* non-zero exit.
Count(seq, x) == Cardinality({i \in 1..Len(seq) : seq[i] = x})

NoIdUnderAnyAlias(payload) ==
  \A key \in {"id", "job_id", "jobId"} :
    Get(payload, key) = Null \/ StrStrip(Get(payload, key).v) = ""

EnqueueFailed ==
  /\ run.runner \in {"doctor", "smoke-dl"}
  /\ Count(run.requests, "enqueue") >= 1
  /\ \/ ~run.enqueue.ok
     \/ ~IsDict(run.enqueue.payload)
     \/ NoIdUnderAnyAlias(run.enqueue.payload)

C19_EnqueueFailure ==
  EnqueueFailed =>
    /\ Count(run.requests, "poll") = 0
    /\ run.poll_count = 0
    /\ run.pc \in {"exit", "done"}
    /\ run.final_status = "start_failed"
    /\ run.runner = "doctor" => ~run.summary_ok
    /\ run.pc = "done" => run.rc \notin {0, None}

C19_Witness ==
  /\ run.pc = "done" /\ run.runner = "doctor" /\ EnqueueFailed
  /\ run.enqueue.ok /\ IsDict(run.enqueue.payload)
  /\ run.classifications = {"API_CONTRACT_INCONSISTENT"} /\ run.rc = 1

\* ------------------------------------------------------------------- C20
\* C20: a run issues at most one enqueue POST, and once the job is seen
\* failed or the deadline has expired the run issues no request for the job
\* any more: no second enqueue, no further poll.
JobOver ==
  \/ run.pc # "poll" /\ run.final_status \in {"failed", "timeout"}
  \/ run.pc = "report" /\ run.final_status = "running"

C20_NoHiddenRetry ==
  [][ /\ Count(run'.requests, "enqueue") <= 1
      /\ JobOver => ( /\ run'.requests = run.requests
                      /\ run'.poll_count = run.poll_count
                      /\ run'.pc \in {"report", "exit", "done"} ) ]_vars

C20_Witness ==
  /\ run.pc = "done" /\ run.final_status = "timeout" /\ run.runner = "doctor"
  /\ Count(run.requests, "enqueue") = 1 /\ Count(run.requests, "poll") >= 2

\* ------------------------------------------------------------------- C21
\* C21: in every polling loop a poll whose status, trimmed and lower-cased,
\* is completed or success resolves the job to success, one whose status is
\* failed, error or cancelled resolves it to failed, and any other or empty
\* status leaves the job running, so that polling goes on.
SuccessWords == {"completed", "success"}
FailureWords == {"failed", "error", "cancelled"}

PollStep == Len(run'.observed) = Len(run.observed) + 1

LastObserved(r) == r.observed[Len(r.observed)]

ResolvedSuccess(r) ==
  CASE r.runner = "doctor" -> r.pc = "report" /\ r.final_status = "success"
    [] r.runner = "smoke-dl" -> r.pc = "verify"
    [] OTHER -> r.pc = "summary" /\ r.final_status = "completed"

ResolvedFailed(r) ==
  CASE r.runner = "doctor" -> r.pc = "report" /\ r.final_status = "failed"
    [] r.runner = "smoke-dl" -> r.pc = "done" /\ r.final_status = "failed"
    [] OTHER -> r.pc = "summary" /\ r.final_status = "failed"

C21_StatusWords ==
  [][PollStep =>
       /\ LastObserved(run') \in SuccessWords => ResolvedSuccess(run')
       /\ LastObserved(run') \in FailureWords => ResolvedFailed(run')
       /\ LastObserved(run') \notin SuccessWords \cup FailureWords \cup {"!error"}
            => run'.pc = "poll"]_vars

\* ------------------------------------------------------------------- C22
\* C22: a transport or parse error on a poll (network failure, error status,
\* non-JSON or non-object body) never ends the polling loop and never makes
\* the final status failed: polling goes on until a terminal status or the
\* deadline.
C22_PollErrorContinues ==
  [][(PollStep /\ LastObserved(run') = "!error") =>
       /\ run'.pc = "poll"
       /\ run'.final_status = run.final_status]_vars

\* ------------------------------------------------------------------- C23
\* C23: terminal states are absorbing: the poll that observes terminal
\* success or terminal failed is the last poll of the run, the loop is left
\* at once, and the final job status is that first terminal observation
\* (run_checks and cmd_smoke_dl).
FinalMatches(o) ==
  /\ o \in FailureWords => run.final_status = "failed"
  /\ o \in SuccessWords =>
       IF run.runner = "doctor" THEN run.final_status = "success"
       ELSE /\ run.pc \in {"verify", "done"}
            /\ run.final_status \in {"running", "success", "verify_failed"}

C23_TerminalAbsorbing ==
  LET n == Len(run.observed) IN
  run.runner \in {"doctor", "smoke-dl"} =>
    /\ Count(run.requests, "poll") = n
    /\ \A i \in 1..n :
         run.observed[i] \in SuccessWords \cup FailureWords =>
           /\ i = n
           /\ run.pc # "poll"
           /\ FinalMatches(run.observed[i])

\* ------------------------------------------------------------------- C24
\* C24: the doctor's final job status is timeout exactly when the polling
\* deadline elapsed with no terminal observation; timeout is never taken from
\* a payload, and DL_JOB_TIMEOUT is in the classifications exactly when the
\* final status is timeout.
DoctorPolled ==
  /\ run.runner = "doctor" /\ run.pc \in {"exit", "done"}
  /\ run.final_status \notin {"not_started", "start_failed"}

NoTerminalObservation ==
  \A i \in 1..Len(run.observed) : run.observed[i] \notin SuccessWords \cup FailureWords

C24_Timeout ==
  /\ DoctorPolled =>
       /\ run.final_status = "timeout" <=> (run.now >= run.deadline /\ NoTerminalObservation)
       /\ "DL_JOB_TIMEOUT" \in run.classifications <=> run.final_status = "timeout"
  /\ (run.runner = "doctor" /\ run.pc = "poll") => run.final_status = "running"

\* ------------------------------------------------------------------- C25
\* C25: n polls that observe a non-terminal status followed by one that
\* observes a success word resolve the run to terminal success after exactly
\* n+1 polls, and the run reports the artifact path of that last payload
\* (model_path or artifact_path); run_checks, cmd_smoke_dl and ops_smoke.main.
ArtifactOf(payload) ==
  IF Truthy(payload.model_path) # "" THEN Truthy(payload.model_path)
  ELSE Truthy(payload.artifact_path)

SuccessAfterRunning ==
  LET n == Len(run.observed) IN
  /\ run.runner \in {"doctor", "smoke-dl", "ops_smoke"}
  /\ n >= 1 /\ run.observed[n] \in SuccessWords
  /\ \A i \in 1..(n - 1) : run.observed[i] \notin SuccessWords \cup FailureWords \cup {"!error"}

C25_SuccessAfterN ==
  SuccessAfterRunning =>
    /\ run.pc # "poll"
    /\ run.poll_count = Len(run.observed)
    /\ CASE run.runner = "doctor" -> run.final_status = "success"
         [] run.runner = "smoke-dl" -> run.final_status \in {"running", "success", "verify_failed"}
         [] OTHER -> run.final_status = "completed"
    /\ run.runner # "doctor" => run.model_path = ArtifactOf(run.last_payload)

\* ------------------------------------------------------------------- C26
\* C26: when the doctor's health check fails the run short-circuits: the
\* report holds the failed health check and no other, the classifications
\* are exactly {BACKEND_DOWN}, no request goes to the status, enqueue or job
\* endpoints, the job is not started and the summary is ok=false.
HealthCheckFailed ==
  run.runner = "doctor" /\ Len(run.checks) >= 1 /\ ~run.checks[1].ok

C26_ShortCircuit ==
  HealthCheckFailed =>
    /\ run.pc \in {"exit", "done"}
    /\ run.checks = <<[name |-> "A_HEALTH", ok |-> FALSE]>>
    /\ run.classifications = {"BACKEND_DOWN"}
    /\ run.requests = <<"health">>
    /\ run.job_id = Null /\ run.final_status = "not_started"
    /\ ~run.summary_ok
    /\ run.pc = "done" => run.rc = 1

C26_Witness ==
  HealthCheckFailed /\ run.pc = "done" /\ run.final_status = "not_started" /\ run.rc = 1

\* ------------------------------------------------------------------- C27
\* C27: in the doctor a failed, non-JSON or malformed answer of either
\* status endpoint adds API_CONTRACT_INCONSISTENT and does not stop the run:
\* the checks that follow, the enqueue among them, are still made in order.
IsPrefix(a, b) == Len(a) <= Len(b) /\ \A i \in 1..Len(a) : a[i] = b[i]

FirstN(seq, n) == [i \in 1..(IF Len(seq) < n THEN Len(seq) ELSE n) |-> seq[i]]

C27_StatusChecksGoOn ==
  (run.runner = "doctor" /\ ~HealthCheckFailed) =>
    /\ \A i \in {2, 3} :
         (i <= Len(run.checks) /\ ~run.checks[i].ok)
           => "API_CONTRACT_INCONSISTENT" \in run.classifications
    /\ IsPrefix(FirstN([i \in 1..Len(run.checks) |-> run.checks[i].name], 4),
                <<"A_HEALTH", "B_API_STATUS", "C_DL_STATUS", "D_START_DL_JOB">>)
    /\ IsPrefix(FirstN(run.requests, 4), <<"health", "status", "dl_status", "enqueue">>)
    /\ Len(run.checks) = 2 => run.pc = "C"
    /\ Len(run.checks) = 3 => run.pc = "D"
    /\ run.pc \in {"exit", "done"} => (Len(run.checks) >= 4 /\ Len(run.requests) >= 4)

C27_Witness ==
  /\ run.runner = "doctor" /\ run.pc = "done" /\ Len(run.checks) >= 5
  /\ run.checks[1].ok /\ ~run.checks[2].ok /\ ~run.checks[3].ok /\ run.checks[4].ok
  /\ run.final_status = "success"
  /\ run.classifications = {"API_CONTRACT_INCONSISTENT"} /\ ~run.summary_ok

\* ------------------------------------------------------------------- C28
\* C28: in the doctor MISSING_TORCH is in the classifications exactly when
\* the final job status is failed and the extracted job error text matches
\* the missing-torch pattern in any casing; never for a successful or
\* timed-out job.
MentionsMissingTorch(text) == text \in {TorchMissing, TorchMissingUpper}

C28_MissingTorch ==
  run.runner = "doctor" =>
    /\ run.pc \in {"exit", "done"} =>
         ("MISSING_TORCH" \in run.classifications
            <=> (run.final_status = "failed" /\ MentionsMissingTorch(run.job_error)))
    /\ run.pc \notin {"exit", "done"} => "MISSING_TORCH" \notin run.classifications
    /\ (run.final_status = "failed" /\ LastObserved(run) = "failed")
         => run.job_error = Truthy(run.last_payload.error)

C28_Witness ==
  /\ run.runner = "doctor" /\ run.pc = "done" /\ run.final_status = "failed"
  /\ run.job_error = TorchMissingUpper
  /\ run.classifications = {"MISSING_TORCH"}

\* ------------------------------------------------------------------- C29
\* C29: in every report of the doctor summary.ok is true exactly when the
\* final job status is success and the classifications are empty, and the
\* doctor exits with code 0 exactly when summary.ok is true.
C29_SummaryOk ==
  (run.runner = "doctor" /\ run.pc \in {"exit", "done"}) =>
    /\ run.summary_ok <=> (run.final_status = "success" /\ run.classifications = {})
    /\ run.pc = "done" => (run.rc = 0 <=> run.summary_ok)

C29_Witness ==
  /\ run.runner = "doctor" /\ run.pc = "done" /\ run.rc = 0 /\ run.summary_ok
  /\ Len(run.observed) >= 2 /\ \A i \in 1..Len(run.checks) : run.checks[i].ok

\* C30: no wait blocks for ever.  While the process keeps taking its steps, the
\* health wait returns (healthy, or failed with the last detail or "timeout"),
\* the wait after SIGTERM ends in "sigterm" or goes on to SIGKILL, the wait
\* after SIGKILL ends in "sigkill" or "still-running-after-sigkill", and the
\* doctor's job polling ends in success, failed or timeout, whatever the
\* backend answers and whether or not the target process ever exits.
C30_WaitsEnd ==
  /\ (wait.pc = "loop") ~> (wait.pc = "returned")
  /\ (term.pc = "grace") ~>
       (term.pc = "sigkill" \/ (term.pc = "done" /\ term.ok /\ term.mode = "sigterm"))
  /\ (term.pc = "hard") ~>
       (term.pc = "done" /\ term.mode \in {"sigkill", "still-running-after-sigkill"})
  /\ (run.pc = "poll") ~>
       (run.pc = "exit" /\ run.final_status \in {"success", "failed", "timeout"})

\* The process outlives both waits: every poll of both loops found it alive.
C30_Witness ==
  /\ term.pc = "done" /\ ~term.ok /\ term.mode = "still-running-after-sigkill"
  /\ Len(term.hist) = 5 + 2 * MaxPolls

\* C31: the action's outcome counts, not the earlier inspection.  A target
\* found gone by _terminate_pid (at its first look, when SIGTERM or SIGKILL is
\* sent, logged, or at a poll) is a success for it, and the port stop of `down`
\* returns success exactly when every terminate call did: owners that exit on
\* their own between the inspection and the signal leave the stop a success.
SuccessModes == {"not-running", "sigterm", "sigterm-late", "sigkill"}

StopReturned ==
  /\ tool = "ops.main" /\ args.command = "down"
  /\ pc \in {"pid_file", "pid_file_wait", "down_end"}
  /\ loc.port_msg.kind \in {"stopped", "failed"}

C31_ExitRace ==
  /\ (term.pc = "done" /\ term.hist[Len(term.hist)] \in {"dead", "ProcessLookupError"}) =>
       term.ok /\ term.mode \in SuccessModes
  /\ StopReturned =>
       (loc.port_ok <=> \A i \in 1..Len(loc.owners) : loc.owners[i].termination \in SuccessModes)

\* Two listed owners, one gone before SIGTERM and one gone before SIGKILL.
C31_Witness ==
  /\ StopReturned /\ loc.port_ok
  /\ \E i, j \in 1..Len(loc.owners) :
       /\ loc.owners[i].termination = "not-running"
       /\ loc.owners[j].termination = "sigterm-late"

\* C32: the backend pid record never blocks a forced `down`.  Whatever the
\* record holds (nothing, text that is no number, the pid of a dead process,
\* the pid of a live process that does not own the port), a forced `down`
\* whose port inspection works and whose terminate calls all succeed exits 0
\* and leaves the record absent.
ForcedDownDone == tool = "ops.main" /\ pc = "done" /\ args.command = "down" /\ loc.force

TerminateFailed == loc.port_msg.kind = "failed" \/ loc.pid_msg.kind = "failed"

C33_TakeoverRounds ==
  [][(/\ tool = "ops.main" /\ args.command \in {"up", "demo"}
      /\ pc # "up_start" /\ pc' = "up_start")
       => Len(_collect_port_owners) = 0]_vars

\* C34: with force, every process outside the allowlist that the port stop or
\* the pid-file stop signals has a FORCE-KILL entry naming it in the ops log
\* from before its first signal, and no entry names an allowlisted process.
C34_ForceKillLogged ==
  tool = "ops.main" =>
    /\ \A sig \in PortSignals \cup PidFileSignals :
         ~sig.safe => ForceKillEntry(sig.pid, sig.by) \in logged
    /\ \A entry \in logged :
         /\ loc.force
         /\ entry.pid \in alive \ spawned => ~_is_safe_backend_command(command[entry.pid])

\* C35: for every /health response the doctor's health check gives the verdict
\* of the health monitor's health_once on the same response: the doctor treats
\* the backend as healthy exactly when health_once reports healthy, so that a
\* payload whose status is outside {healthy, ok, running} counts as down.
C35_DoctorAgreesWithHealthOnce ==
  (probe.pc = "judged" /\ probe.client = "ops.checks") =>
    (probe.healthy <=> health_once(http_json(probe.response, probe.lib)))

\* C36: a report of the doctor whose summary is ok records the health check,
\* both status checks, the job start and at least one job poll, every one of
\* them ok, and carries a job id that is not empty; a run with a failed check
\* is never summarised as ok.
DoctorReported == run.runner = "doctor" /\ run.pc \in {"exit", "done"}

C36_OkMeansAllChecksOk ==
  (DoctorReported /\ run.summary_ok) =>
    /\ \A i \in 1..Len(run.checks) : run.checks[i].ok
    /\ Len(run.checks) = 4 + run.poll_count
    /\ [i \in 1..4 |-> run.checks[i].name]
         = <<"A_HEALTH", "B_API_STATUS", "C_DL_STATUS", "D_START_DL_JOB">>
    /\ \A i \in 5..Len(run.checks) : run.checks[i].name = "D_POLL_DL_JOB"
    /\ run.poll_count >= 1
    /\ run.job_id \notin {Null, Str("")}
    /\ run.job_id.t = "str" /\ StrStrip(run.job_id.v) = run.job_id.v

\* A report that is ok after one poll, and one that is not ok with a failed
\* status check behind a job that succeeded.
C36_Witness ==
  /\ DoctorReported /\ run.pc = "exit" /\ run.summary_ok
  /\ run.poll_count = 1 /\ Len(run.checks) = 5

C36_WitnessFailedCheck ==
  /\ DoctorReported /\ ~run.summary_ok /\ run.final_status = "success"
  /\ \E i \in 1..Len(run.checks) : ~run.checks[i].ok

\* C37: when `up` has spawned the backend and the health wait that follows
\* times out, `up` exits non-zero without a rollback: the step sends no signal,
\* ends no process, changes no file, and the backend record names the spawned
\* process, where a later `down` finds it.
UpWaitTimesOut ==
  /\ tool = "ops.main" /\ args.command \in {"up", "demo"}
  /\ pc = "up_wait" /\ pc' = "done"
  /\ rc' # EXIT_OK

C37_NoRollback ==
  [][UpWaitTimesOut =>
       /\ rc' = EXIT_FAIL
       /\ sent' = sent
       /\ term' = term
       /\ alive' = alive
       /\ files' = files
       /\ _read_pid_file(BACKEND_PID_FILE') = loc.port_msg.pid]_vars

\* C38: the stop of the orchestrator has the gate of the listing.  A target
\* (listed, or read from the orchestrator pid file) is handed to _terminate_pid
\* only if its command line is not empty and holds both the '-m ops.main' and
\* the 'dpolaris_ops' fragment; every other target is skipped, reported as not
\* killed, and receives no signal.
OrchTarget == loc.targets[loc.idx]

C38_OrchestratorGate ==
  [][(tool = "ops.main" /\ pc = "orch_loop" /\ loc.idx <= Len(loc.targets)) =>
       /\ pc' = "orch_wait" =>
            /\ term'.pid = OrchTarget.pid
            /\ OrchTarget.command # NoCommand
            /\ IsOrchestratorCommand(OrchTarget.command)
       /\ (pc' = "orch_loop" /\ loc'.idx = loc.idx + 1) =>
            /\ OrchTarget.command = NoCommand \/ ~IsOrchestratorCommand(OrchTarget.command)
            /\ sent' = sent /\ term' = term]_vars

\* C39: two `up` for the same port that run at the same time spawn at most one
\* backend between them, and when both have finished, a backend having been
\* spawned and still running, the backend record names the process that is
\* alive and listens on the port.
UpsSpawners == {i \in Invocations : ups[i].pc # "off" /\ ups[i].pid # 0}

UpsFinished == \A i \in Invocations : ups[i].pc = "done"

C39_OneBackend ==
  /\ Cardinality(UpsSpawners) <= 1
  /\ (UpsFinished /\ UpsSpawners # {} /\ \A i \in UpsSpawners : ups[i].pid \in alive) =>
       LET pid == _read_pid_file(BACKEND_PID_FILE)
       IN  /\ pid \in alive \cap listening
           /\ command[pid] = BackendCommand(tool)

====
